---- MODULE Spec2Model ----
(***************************************************************************)
(* A model of the GoCompiler repository: the bytecode compiler            *)
(* (package compiler), the instruction encoding (package opcode), the     *)
(* symbol table and the stack virtual machine (package vm).               *)
(*                                                                         *)
(* A program (an AST) is drawn in Init, compiled statement by statement,  *)
(* handed to a fresh VM, and executed one fetch/decode/execute iteration  *)
(* of Run per step.                                                        *)
(***************************************************************************)
EXTENDS Integers, Sequences, FiniteSets, TLC

(***************************************************************************)
(* vm.go: fixed sizes                                                      *)
(***************************************************************************)
StackSize == 2048
GlobalSize == 65536
MaxFrames == 2048

(***************************************************************************)
(* Errors are tuples whose first element is the message text; NoErr is    *)
(* Go's nil error.  A Go runtime panic is not an error value: it is kept  *)
(* apart, in the field panic.                                              *)
(***************************************************************************)
NoErr == <<>>
NoPanic == ""

(***************************************************************************)
(* package ir: the object universe.  Objects are heap allocated in Go and *)
(* compared by pointer, so every object carries the identity id of its    *)
(* allocation.  Strings are sequences of character codes.                 *)
(***************************************************************************)
IntegerObj == "INTEGER"
BooleanObj == "BOOLEAN"
NullObj == "NULL"
StringObj == "STRING"
ArrayObj == "ARRAY"
HashObj == "HASH"
CompiledFunctionObj == "COMPILED_FUNCTION"
ClosureObj == "CLOSURE"
NilType == "nil"

\* the nil interface value (an unset slot of stack or globals)
Nil == [type |-> NilType, id |-> 0]

True == [type |-> BooleanObj, id |-> 1, Value |-> TRUE]
False == [type |-> BooleanObj, id |-> 2, Value |-> FALSE]
Null == [type |-> NullObj, id |-> 3]
\* the closure vm.New synthesises for the main frame has this identity
MainId == 4
\* first identity handed out to an object allocated by compiler or VM
FirstId == 5

Integer(id, v) == [type |-> IntegerObj, id |-> id, Value |-> v]
String(id, s) == [type |-> StringObj, id |-> id, Value |-> s]
Array(id, els) == [type |-> ArrayObj, id |-> id, Elements |-> els]
Hash(id, pairs) == [type |-> HashObj, id |-> id, Pairs |-> pairs]
CompiledFunction(id, ins, nl, np) ==
  [type |-> CompiledFunctionObj, id |-> id, Instructions |-> ins,
   NumLocals |-> nl, NumParameters |-> np]
\* Function is a pointer to a CompiledFunction: its index in the constant
\* pool, or MainFn for the function wrapping the top-level instructions
MainFn == -1
Closure(id, fn, free) ==
  [type |-> ClosureObj, id |-> id, Function |-> fn, Free |-> free]

\* pointer equality of two interface values (Go's ==)
SameObject(a, b) == a.id = b.id

Hashable(o) == o.type \in {IntegerObj, BooleanObj, StringObj}
\* HashKey{Type, Value}: the content stands for its 64-bit hash
HashKey(o) ==
  IF o.type = BooleanObj THEN <<o.type, <<IF o.Value THEN 1 ELSE 0>>>>
  ELSE IF o.type = IntegerObj THEN <<o.type, <<o.Value>>>>
  ELSE <<o.type, o.Value>>

(***************************************************************************)
(* package opcode: opcodes, operand widths, Make and the readers          *)
(***************************************************************************)
OpConstant == 0
OpAdd == 1
OpSub == 2
OpMul == 3
OpDiv == 4
OpPop == 5
OpTrue == 6
OpFalse == 7
OpEqual == 8
OpNotEqual == 9
OpGreaterThan == 10
OpMinus == 11
OpBang == 12
OpJump == 13
OpJumpNotTruthy == 14
OpNull == 15
OpSetGlobal == 16
OpGetGlobal == 17
OpSetLocal == 18
OpGetLocal == 19
OpGetFree == 20
OpArray == 21
OpHash == 22
OpIndex == 23
OpCall == 24
OpReturnValue == 25
OpReturn == 26
OpClosure == 27

Opcodes == OpConstant .. OpClosure

\* the operand widths, in bytes, of each opcode
OperandWidths(op) ==
  CASE op \in {OpConstant, OpJump, OpJumpNotTruthy, OpSetGlobal, OpGetGlobal,
               OpArray, OpHash} -> <<2>>
    [] op \in {OpSetLocal, OpGetLocal, OpGetFree, OpCall} -> <<1>>
    [] op = OpClosure -> <<2, 1>>
    [] OTHER -> <<>>

\* one operand in big-endian bytes of the given width (uint16(o), byte(o))
EncodeOperand(o, width) ==
  IF width = 2 THEN <<(o % 65536) \div 256, o % 256>> ELSE <<o % 256>>

RECURSIVE EncodeOperands(_, _)
EncodeOperands(operands, widths) ==
  IF operands = <<>> \/ widths = <<>> THEN <<>>
  ELSE EncodeOperand(Head(operands), Head(widths))
         \o EncodeOperands(Tail(operands), Tail(widths))

\* Make(op, operands...): the opcode byte followed by the operands
Make(op, operands) ==
  IF op \notin Opcodes THEN <<>>
  ELSE <<op>> \o EncodeOperands(operands, OperandWidths(op))

\* ReadUint16(ins[off:]) and ReadUint8(ins[off:]); off is a Go (0-based) offset
ReadUint16(ins, off) == ins[off + 1] * 256 + ins[off + 2]
ReadUint8(ins, off) == ins[off + 1]

(***************************************************************************)
(* package ast: the textual form String() of the expressions that occur   *)
(* as hash keys.  Text is a sequence of character codes, compared the way *)
(* Go compares strings (bytewise, a proper prefix first).                 *)
(***************************************************************************)
RECURSIVE Digits(_)
Digits(n) == IF n < 10 THEN <<48 + n>> ELSE Digits(n \div 10) \o <<48 + (n % 10)>>

\* the characters of the operators and identifiers of the programs modelled
Chars(s) ==
  CASE s = "+" -> <<43>> [] s = "-" -> <<45>> [] s = "*" -> <<42>>
    [] s = "/" -> <<47>> [] s = "<" -> <<60>> [] s = ">" -> <<62>>
    [] s = "==" -> <<61, 61>> [] s = "!=" -> <<33, 61>> [] s = "!" -> <<33>>
    [] s = "a" -> <<97>> [] s = "b" -> <<98>> [] s = "c" -> <<99>>
    [] s = "true" -> <<116, 114, 117, 101>>
    [] s = "false" -> <<102, 97, 108, 115, 101>>
    [] OTHER -> <<63>>

RECURSIVE NodeString(_)
NodeString(node) ==
  CASE node.kind = "IntegerLiteral" -> Digits(node.Value)
    [] node.kind = "StringLiteral" -> node.Value
    [] node.kind = "Boolean" -> IF node.Value THEN Chars("true") ELSE Chars("false")
    [] node.kind = "Identifier" -> Chars(node.Value)
    [] node.kind = "PrefixExpression" ->
         <<40>> \o Chars(node.Operator) \o NodeString(node.Right) \o <<41>>
    [] node.kind = "InfixExpression" ->
         <<40>> \o NodeString(node.Left) \o <<32>> \o Chars(node.Operator)
           \o <<32>> \o NodeString(node.Right) \o <<41>>
    [] OTHER -> <<>>

\* Go's s < t on strings
RECURSIVE StringLess(_, _)
StringLess(s, t) ==
  IF t = <<>> THEN FALSE
  ELSE IF s = <<>> THEN TRUE
  ELSE IF Head(s) # Head(t) THEN Head(s) < Head(t)
  ELSE StringLess(Tail(s), Tail(t))

(***************************************************************************)
(* The symbol table.  The chain of tables linked by Outer is a sequence:  *)
(* the root table first, the current table last.                          *)
(***************************************************************************)
GlobalScope == "GLOBAL"
LocalScope == "LOCAL"
FreeScope == "FREE"

Symbol(name, scope, index) == [Name |-> name, Scope |-> scope, Index |-> index]
NoSymbol == Symbol("", "", 0)

NewSymbolTable ==
  [store |-> [n \in {} |-> NoSymbol], numDefinitions |-> 0, FreeSymbols |-> <<>>]

\* the symbol Define(name) returns in the current table of the chain
DefinedSymbol(tabs, name) ==
  Symbol(name, IF Len(tabs) = 1 THEN GlobalScope ELSE LocalScope,
         tabs[Len(tabs)].numDefinitions)

\* the chain after Define(name) in its current table
Define(tabs, name) ==
  [tabs EXCEPT ![Len(tabs)] =
     [@ EXCEPT !.store = (name :> DefinedSymbol(tabs, name)) @@ @,
               !.numDefinitions = @ + 1]]

\* Resolve(name) in the table at level of the chain: the symbol, whether it
\* was found, and the chain with the free symbols the lookup defined
RECURSIVE Resolve(_, _, _)
Resolve(tabs, level, name) ==
  IF name \in DOMAIN tabs[level].store
  THEN [tabs |-> tabs, sym |-> tabs[level].store[name], ok |-> TRUE]
  ELSE IF level = 1
  THEN [tabs |-> tabs, sym |-> NoSymbol, ok |-> FALSE]
  ELSE LET r == Resolve(tabs, level - 1, name) IN
       IF ~r.ok THEN r
       ELSE IF r.sym.Scope = GlobalScope THEN r
       ELSE LET t == r.tabs[level]
                free == Symbol(r.sym.Name, FreeScope, Len(t.FreeSymbols))
                t2 == [t EXCEPT !.FreeSymbols = Append(@, r.sym),
                                !.store = (r.sym.Name :> free) @@ @]
            IN [tabs |-> [r.tabs EXCEPT ![level] = t2], sym |-> free, ok |-> TRUE]

(***************************************************************************)
(* package compiler.  The Compiler struct is a record; heap is the        *)
(* identity of the next object it allocates, tie the order in which the   *)
(* unstable sort of a hash literal's keys leaves keys of equal text.      *)
(***************************************************************************)
EmittedInstruction(op, pos) == [Opcode |-> op, Position |-> pos]

CompilationScope ==
  [instructions |-> <<>>,
   lastInstruction |-> EmittedInstruction(0, 0),
   previousInstruction |-> EmittedInstruction(0, 0)]

NewCompiler(tie) ==
  [constants |-> <<>>,
   symbolTable |-> <<NewSymbolTable>>,
   scopes |-> <<CompilationScope>>,
   scopeIndex |-> 0,
   heap |-> FirstId,
   tie |-> tie,
   err |-> NoErr,
   panic |-> NoPanic]

currentInstructions(c) == c.scopes[c.scopeIndex + 1].instructions

\* a variant that appends no constant equal in value to one of the pool
addConstantOnce(c, obj) ==
  IF \E i \in 1 .. Len(c.constants) :
       /\ c.constants[i].type = obj.type
       /\ obj.type \in {IntegerObj, StringObj}
       /\ c.constants[i].Value = obj.Value
  THEN c
  ELSE [c EXCEPT !.constants = Append(@, obj), !.heap = @ + 1]

\* the constant pool after addConstant(obj); the index returned is its old length
addConstant(c, obj) == [c EXCEPT !.constants = Append(@, obj), !.heap = @ + 1]

addInstruction(c, ins) ==
  [c EXCEPT !.scopes[c.scopeIndex + 1].instructions = @ \o ins]

setLastInstruction(c, op, pos) ==
  [c EXCEPT !.scopes[c.scopeIndex + 1].previousInstruction =
              c.scopes[c.scopeIndex + 1].lastInstruction,
            !.scopes[c.scopeIndex + 1].lastInstruction = EmittedInstruction(op, pos)]

\* emit(op, operands...); the position returned is Len(currentInstructions(c))
emit(c, op, operands) ==
  setLastInstruction(addInstruction(c, Make(op, operands)), op,
                     Len(currentInstructions(c)))

lastInstructionIs(c, op) ==
  IF Len(currentInstructions(c)) = 0 THEN FALSE
  ELSE c.scopes[c.scopeIndex + 1].lastInstruction.Opcode = op

removeLastPop(c) ==
  LET last == c.scopes[c.scopeIndex + 1].lastInstruction
      previous == c.scopes[c.scopeIndex + 1].previousInstruction
  IN [c EXCEPT !.scopes[c.scopeIndex + 1].instructions = SubSeq(@, 1, last.Position),
               !.scopes[c.scopeIndex + 1].lastInstruction = previous]

\* overwrite the bytes at pos, in place; a byte outside the slice panics
replaceInstruction(c, pos, newInstruction) ==
  LET ins == currentInstructions(c) IN
  IF pos < 0 \/ pos + Len(newInstruction) > Len(ins)
  THEN [c EXCEPT !.panic = "index out of range"]
  ELSE [c EXCEPT !.scopes[c.scopeIndex + 1].instructions =
          [i \in 1 .. Len(ins) |->
             IF i - 1 >= pos /\ i - 1 < pos + Len(newInstruction)
             THEN newInstruction[i - pos] ELSE ins[i]]]

changeOperand(c, opPos, operand) ==
  IF opPos < 0 \/ opPos >= Len(currentInstructions(c))
  THEN [c EXCEPT !.panic = "index out of range"]
  ELSE replaceInstruction(c, opPos, Make(currentInstructions(c)[opPos + 1], <<operand>>))

enterScope(c) ==
  [c EXCEPT !.scopes = Append(@, CompilationScope),
            !.scopeIndex = @ + 1,
            !.symbolTable = Append(@, NewSymbolTable)]

\* a variant that leaves the symbol table of the inner scope in place
leaveScopeKeepingTable(c) ==
  [c EXCEPT !.scopes = SubSeq(@, 1, Len(@) - 1),
            !.scopeIndex = @ - 1]

\* leaveScope; the instructions returned are currentInstructions(c)
leaveScope(c) ==
  [c EXCEPT !.scopes = SubSeq(@, 1, Len(@) - 1),
            !.scopeIndex = @ - 1,
            !.symbolTable = SubSeq(@, 1, Len(@) - 1)]

\* a variant that leaves the opcode of lastInstruction as it was
replaceLastPopOnly(c) ==
  replaceInstruction(c, c.scopes[c.scopeIndex + 1].lastInstruction.Position,
                     Make(OpReturnValue, <<>>))

replaceLastPopWithReturn(c) ==
  LET lastPos == c.scopes[c.scopeIndex + 1].lastInstruction.Position
      c1 == replaceInstruction(c, lastPos, Make(OpReturnValue, <<>>))
  IN [c1 EXCEPT !.scopes[c.scopeIndex + 1].lastInstruction.Opcode = OpReturnValue]

\* a variant that loads a free symbol as a local of the enclosing function
loadSymbolFreeAsLocal(c, s) ==
  CASE s.Scope = GlobalScope -> emit(c, OpGetGlobal, <<s.Index>>)
    [] s.Scope = LocalScope -> emit(c, OpGetLocal, <<s.Index>>)
    [] s.Scope = FreeScope -> emit(c, OpGetLocal, <<s.Index>>)
    [] OTHER -> c

loadSymbol(c, s) ==
  CASE s.Scope = GlobalScope -> emit(c, OpGetGlobal, <<s.Index>>)
    [] s.Scope = LocalScope -> emit(c, OpGetLocal, <<s.Index>>)
    [] s.Scope = FreeScope -> emit(c, OpGetFree, <<s.Index>>)
    [] OTHER -> c

\* a variant that loads the free symbols last first
RECURSIVE loadSymbolsReversed(_, _)
loadSymbolsReversed(c, syms) ==
  IF syms = <<>> THEN c
  ELSE loadSymbol(loadSymbolsReversed(c, Tail(syms)), Head(syms))

RECURSIVE loadSymbols(_, _)
loadSymbols(c, syms) ==
  IF syms = <<>> THEN c ELSE loadSymbols(loadSymbol(c, Head(syms)), Tail(syms))

RECURSIVE defineParameters(_, _)
defineParameters(tabs, params) ==
  IF params = <<>> THEN tabs
  ELSE defineParameters(Define(tabs, Head(params)), Tail(params))

\* the opcode an infix operator other than < is compiled to; NoOp when unknown
NoOp == -1
InfixOpcode(operator) ==
  CASE operator = "+" -> OpAdd
    [] operator = "-" -> OpSub
    [] operator = "*" -> OpMul
    [] operator = "/" -> OpDiv
    [] operator = ">" -> OpGreaterThan
    [] operator = "==" -> OpEqual
    [] operator = "!=" -> OpNotEqual
    [] OTHER -> NoOp

PrefixOpcode(operator) ==
  CASE operator = "!" -> OpBang
    [] operator = "-" -> OpMinus
    [] OTHER -> NoOp

\* sort.Slice(keys, String() <): insert the pair at position i into the sorted
\* list of positions; among keys of equal text the order is not determined
RECURSIVE InsertKey(_, _, _, _)
InsertKey(pairs, sorted, i, tie) ==
  IF sorted = <<>> THEN <<i>>
  ELSE LET h == Head(sorted)
           ki == NodeString(pairs[i][1])
           kh == NodeString(pairs[h][1])
       IN IF StringLess(ki, kh) \/ (ki = kh /\ tie)
          THEN <<i>> \o sorted
          ELSE <<h>> \o InsertKey(pairs, Tail(sorted), i, tie)

RECURSIVE SortedKeys(_, _, _)
\* a variant that leaves the keys in source order
SourceOrderKeys(pairs, n, tie) == [i \in 1 .. n |-> i]

SortedKeys(pairs, n, tie) ==
  IF n = 0 THEN <<>> ELSE InsertKey(pairs, SortedKeys(pairs, n - 1, tie), n, tie)

\* the absent node (a nil Alternative)
NoNode == [kind |-> "nil"]

CompileFailed(c) == c.err # NoErr \/ c.panic # NoPanic

RECURSIVE Compile(_, _)

\* for _, s := range nodes { err := c.Compile(s); if err != nil { return err } }
RECURSIVE CompileAll(_, _)
CompileAll(c, nodes) ==
  IF nodes = <<>> THEN c
  ELSE LET c1 == Compile(c, Head(nodes)) IN
       IF CompileFailed(c1) THEN c1 ELSE CompileAll(c1, Tail(nodes))

CompileExpressionStatement(c, node) ==
  LET c1 == Compile(c, node.Expression) IN
  IF CompileFailed(c1) THEN c1 ELSE emit(c1, OpPop, <<>>)

\* a variant that compiles the operands of < left then right
CompileInfixExpressionInOrder(c, node) ==
  LET c1 == Compile(c, node.Left) IN
  IF CompileFailed(c1) THEN c1
  ELSE LET c2 == Compile(c1, node.Right) IN
       IF CompileFailed(c2) THEN c2
       ELSE IF node.Operator = "<" THEN emit(c2, OpGreaterThan, <<>>)
       ELSE IF InfixOpcode(node.Operator) = NoOp
       THEN [c2 EXCEPT !.err = <<"unknown operator ", node.Operator>>]
       ELSE emit(c2, InfixOpcode(node.Operator), <<>>)

CompileInfixExpression(c, node) ==
  IF node.Operator = "<"
  THEN LET c1 == Compile(c, node.Right) IN
       IF CompileFailed(c1) THEN c1
       ELSE LET c2 == Compile(c1, node.Left) IN
            IF CompileFailed(c2) THEN c2 ELSE emit(c2, OpGreaterThan, <<>>)
  ELSE LET c1 == Compile(c, node.Left) IN
       IF CompileFailed(c1) THEN c1
       ELSE LET c2 == Compile(c1, node.Right) IN
            IF CompileFailed(c2) THEN c2
            ELSE IF InfixOpcode(node.Operator) = NoOp
            THEN [c2 EXCEPT !.err = <<"unknown operator ", node.Operator>>]
            ELSE emit(c2, InfixOpcode(node.Operator), <<>>)

CompilePrefixExpression(c, node) ==
  LET c1 == Compile(c, node.Right) IN
  IF CompileFailed(c1) THEN c1
  ELSE IF PrefixOpcode(node.Operator) = NoOp
  THEN [c1 EXCEPT !.err = <<"unknown operator ", node.Operator>>]
  ELSE emit(c1, PrefixOpcode(node.Operator), <<>>)

\* the alternative of an if-expression, compiled after the consequence's jump
CompileAlternative(c, node) ==
  IF node.Alternative.kind = NoNode.kind THEN emit(c, OpNull, <<>>)
  ELSE LET c1 == Compile(c, node.Alternative) IN
       IF CompileFailed(c1) THEN c1
       ELSE IF lastInstructionIs(c1, OpPop) THEN removeLastPop(c1) ELSE c1

CompileIfExpression(c, node) ==
  LET c1 == Compile(c, node.Condition) IN
  IF CompileFailed(c1) THEN c1
  ELSE
  LET jumpNotTruthyPos == Len(currentInstructions(c1))
      c2 == emit(c1, OpJumpNotTruthy, <<9999>>)
      c3 == Compile(c2, node.Consequence)
  IN
  IF CompileFailed(c3) THEN c3
  ELSE
  LET c4 == IF lastInstructionIs(c3, OpPop) THEN removeLastPop(c3) ELSE c3
      jumpPos == Len(currentInstructions(c4))
      c5 == emit(c4, OpJump, <<9999>>)
      afterConsequencePos == Len(currentInstructions(c5))
      c6 == changeOperand(c5, jumpNotTruthyPos, afterConsequencePos)
      c7 == CompileAlternative(c6, node)
  IN
  IF CompileFailed(c7) THEN c7
  ELSE changeOperand(c7, jumpPos, Len(currentInstructions(c7)))

CompileIndexExpression(c, node) ==
  LET c1 == Compile(c, node.Left) IN
  IF CompileFailed(c1) THEN c1
  ELSE LET c2 == Compile(c1, node.Index) IN
       IF CompileFailed(c2) THEN c2 ELSE emit(c2, OpIndex, <<>>)

CompileCallExpression(c, node) ==
  LET c1 == Compile(c, node.Function) IN
  IF CompileFailed(c1) THEN c1
  ELSE LET c2 == CompileAll(c1, node.Arguments) IN
       IF CompileFailed(c2) THEN c2 ELSE emit(c2, OpCall, <<Len(node.Arguments)>>)

\* a variant that defines the name after compiling the value
CompileLetStatementDefineAfter(c, node) ==
  LET c1 == Compile(c, node.Value)
      symbol == DefinedSymbol(c1.symbolTable, node.Name)
      c2 == [c1 EXCEPT !.symbolTable = Define(@, node.Name)]
  IN
  IF CompileFailed(c1) THEN c1
  ELSE IF symbol.Scope = GlobalScope
  THEN emit(c2, OpSetGlobal, <<symbol.Index>>)
  ELSE emit(c2, OpSetLocal, <<symbol.Index>>)

CompileLetStatement(c, node) ==
  LET symbol == DefinedSymbol(c.symbolTable, node.Name)
      c1 == Compile([c EXCEPT !.symbolTable = Define(@, node.Name)], node.Value)
  IN
  IF CompileFailed(c1) THEN c1
  ELSE IF symbol.Scope = GlobalScope
  THEN emit(c1, OpSetGlobal, <<symbol.Index>>)
  ELSE emit(c1, OpSetLocal, <<symbol.Index>>)

CompileReturnStatement(c, node) ==
  LET c1 == Compile(c, node.ReturnValue) IN
  IF CompileFailed(c1) THEN c1 ELSE emit(c1, OpReturnValue, <<>>)

\* a variant that takes an unresolved name for the first global
CompileIdentifierLenient(c, node) ==
  LET r == Resolve(c.symbolTable, Len(c.symbolTable), node.Value) IN
  IF ~r.ok THEN emit(c, OpGetGlobal, <<0>>)
  ELSE loadSymbol([c EXCEPT !.symbolTable = r.tabs], r.sym)

CompileIdentifier(c, node) ==
  LET r == Resolve(c.symbolTable, Len(c.symbolTable), node.Value) IN
  IF ~r.ok THEN [c EXCEPT !.err = <<"undefined variable ", node.Value>>]
  ELSE loadSymbol([c EXCEPT !.symbolTable = r.tabs], r.sym)

CompileIntegerLiteral(c, node) ==
  emit(addConstant(c, Integer(c.heap, node.Value)), OpConstant, <<Len(c.constants)>>)

CompileBoolean(c, node) ==
  IF node.Value THEN emit(c, OpTrue, <<>>) ELSE emit(c, OpFalse, <<>>)

CompileStringLiteral(c, node) ==
  emit(addConstant(c, String(c.heap, node.Value)), OpConstant, <<Len(c.constants)>>)

CompileArrayLiteral(c, node) ==
  LET c1 == CompileAll(c, node.Elements) IN
  IF CompileFailed(c1) THEN c1 ELSE emit(c1, OpArray, <<Len(node.Elements)>>)

\* for _, k := range keys { Compile(k); Compile(node.Pairs[k]) }
RECURSIVE CompilePairs(_, _, _)
CompilePairs(c, pairs, keys) ==
  IF keys = <<>> THEN c
  ELSE LET c1 == Compile(c, pairs[Head(keys)][1]) IN
       IF CompileFailed(c1) THEN c1
       ELSE LET c2 == Compile(c1, pairs[Head(keys)][2]) IN
            IF CompileFailed(c2) THEN c2 ELSE CompilePairs(c2, pairs, Tail(keys))

CompileHashLiteral(c, node) ==
  LET keys == SortedKeys(node.Pairs, Len(node.Pairs), c.tie)
      c1 == CompilePairs(c, node.Pairs, keys)
  IN IF CompileFailed(c1) THEN c1 ELSE emit(c1, OpHash, <<Len(node.Pairs) * 2>>)

\* a variant that emits no OpReturn after a body that leaves no value
CompileFunctionLiteralNoReturn(c, node) ==
  LET c1 == enterScope(c)
      c2 == [c1 EXCEPT !.symbolTable = defineParameters(@, node.Parameters)]
      c3 == Compile(c2, node.Body)
  IN
  IF CompileFailed(c3) THEN c3
  ELSE
  LET c4 == IF lastInstructionIs(c3, OpPop) THEN replaceLastPopWithReturn(c3) ELSE c3
      c5 == c4
      freeSymbols == c5.symbolTable[Len(c5.symbolTable)].FreeSymbols
      numLocals == c5.symbolTable[Len(c5.symbolTable)].numDefinitions
      instructions == currentInstructions(c5)
      c6 == loadSymbols(leaveScope(c5), freeSymbols)
      compiledfunction ==
        CompiledFunction(c6.heap, instructions, numLocals, Len(node.Parameters))
      functionIndex == Len(c6.constants)
  IN emit(addConstant(c6, compiledfunction), OpClosure,
          <<functionIndex, Len(freeSymbols)>>)

CompileFunctionLiteral(c, node) ==
  LET c1 == enterScope(c)
      c2 == [c1 EXCEPT !.symbolTable = defineParameters(@, node.Parameters)]
      c3 == Compile(c2, node.Body)
  IN
  IF CompileFailed(c3) THEN c3
  ELSE
  LET c4 == IF lastInstructionIs(c3, OpPop) THEN replaceLastPopWithReturn(c3) ELSE c3
      c5 == IF ~lastInstructionIs(c4, OpReturnValue) THEN emit(c4, OpReturn, <<>>) ELSE c4
      freeSymbols == c5.symbolTable[Len(c5.symbolTable)].FreeSymbols
      numLocals == c5.symbolTable[Len(c5.symbolTable)].numDefinitions
      instructions == currentInstructions(c5)
      c6 == loadSymbols(leaveScope(c5), freeSymbols)
      compiledfunction ==
        CompiledFunction(c6.heap, instructions, numLocals, Len(node.Parameters))
      functionIndex == Len(c6.constants)
  IN emit(addConstant(c6, compiledfunction), OpClosure,
          <<functionIndex, Len(freeSymbols)>>)

Compile(c, node) ==
  CASE node.kind = "Program" -> CompileAll(c, node.Statements)
    [] node.kind = "ExpressionStatement" -> CompileExpressionStatement(c, node)
    [] node.kind = "InfixExpression" -> CompileInfixExpression(c, node)
    [] node.kind = "PrefixExpression" -> CompilePrefixExpression(c, node)
    [] node.kind = "IfExpression" -> CompileIfExpression(c, node)
    [] node.kind = "IndexExpression" -> CompileIndexExpression(c, node)
    [] node.kind = "CallExpression" -> CompileCallExpression(c, node)
    [] node.kind = "BlockStatement" -> CompileAll(c, node.Statements)
    [] node.kind = "LetStatement" -> CompileLetStatement(c, node)
    [] node.kind = "ReturnStatement" -> CompileReturnStatement(c, node)
    [] node.kind = "Identifier" -> CompileIdentifier(c, node)
    [] node.kind = "IntegerLiteral" -> CompileIntegerLiteral(c, node)
    [] node.kind = "Boolean" -> CompileBoolean(c, node)
    [] node.kind = "StringLiteral" -> CompileStringLiteral(c, node)
    [] node.kind = "ArrayLiteral" -> CompileArrayLiteral(c, node)
    [] node.kind = "HashLiteral" -> CompileHashLiteral(c, node)
    [] node.kind = "FunctionLiteral" -> CompileFunctionLiteral(c, node)
    [] OTHER -> c

\* Bytecode(): the current scope's instructions and the constant pool
Bytecode(c) == [Instructions |-> currentInstructions(c), Constants |-> c.constants]

(***************************************************************************)
(* package vm.  The VM struct is a record.  stack, globals and frames     *)
(* hold the slots written so far: the slots above are the nil (zero)      *)
(* values make() left there.  Go index i is position i + 1.               *)
(***************************************************************************)
Frame(cl, ip, basePointer) == [cl |-> cl, ip |-> ip, basePointer |-> basePointer]

NewFrame(cl, basePointer) == Frame(cl, -1, basePointer)

NewVM(bytecode, heap) ==
  [constants |-> bytecode.Constants,
   main |-> CompiledFunction(MainId, bytecode.Instructions, 0, 0),
   stack |-> <<>>,
   sp |-> 0,
   globals |-> <<>>,
   frames |-> <<NewFrame(Closure(MainId, MainFn, <<>>), 0)>>,
   framesIndex |-> 1,
   heap |-> heap,
   err |-> NoErr,
   panic |-> NoPanic]

\* Run has returned an error, or the goroutine has panicked
VMFailed(v) == v.err # NoErr \/ v.panic # NoPanic

ReturnError(v, e) == IF VMFailed(v) THEN v ELSE [v EXCEPT !.err = e]
GoPanic(v, msg) == IF VMFailed(v) THEN v ELSE [v EXCEPT !.panic = msg]

\* the CompiledFunction a closure points to
FunctionOf(v, cl) ==
  IF cl.Function = MainFn THEN v.main ELSE v.constants[cl.Function + 1]

\* a slice with slot i (0-based) set to o, the slots in between being nil
SetSlot(s, i, o) ==
  IF i < Len(s) THEN [s EXCEPT ![i + 1] = o]
  ELSE IF i = Len(s) THEN Append(s, o)
  ELSE s \o [k \in 1 .. i + 1 - Len(s) |-> IF k = i + 1 - Len(s) THEN o ELSE Nil]

\* vm.stack[i], for i within the array
StackAt(v, i) == IF i >= 0 /\ i < Len(v.stack) THEN v.stack[i + 1] ELSE Nil
GlobalAt(v, i) == IF i >= 0 /\ i < Len(v.globals) THEN v.globals[i + 1] ELSE Nil
InStack(i) == i >= 0 /\ i < StackSize

currentFrame(v) ==
  IF v.framesIndex >= 1 /\ v.framesIndex <= Len(v.frames)
  THEN v.frames[v.framesIndex]
  ELSE NewFrame(Closure(0, MainFn, <<>>), 0)

Instructions(v, f) == FunctionOf(v, f.cl).Instructions

\* vm.currentFrame().ip = ip
SetIp(v, ip) ==
  IF VMFailed(v) THEN v
  ELSE IF v.framesIndex < 1 \/ v.framesIndex > MaxFrames
  THEN GoPanic(v, "index out of range")
  ELSE [v EXCEPT !.frames[v.framesIndex].ip = ip]

AddIp(v, n) == SetIp(v, currentFrame(v).ip + n)

SetSp(v, sp) == IF VMFailed(v) THEN v ELSE [v EXCEPT !.sp = sp]

\* the object pop() returns
Top(v) == StackAt(v, v.sp - 1)

pop(v) ==
  IF VMFailed(v) THEN v
  ELSE IF ~InStack(v.sp - 1) THEN GoPanic(v, "index out of range")
  ELSE [v EXCEPT !.sp = @ - 1]

push(v, o) ==
  IF VMFailed(v) THEN v
  ELSE IF v.sp >= StackSize THEN ReturnError(v, <<"stack overflow">>)
  ELSE IF ~InStack(v.sp) THEN GoPanic(v, "index out of range")
  ELSE [v EXCEPT !.stack = SetSlot(@, v.sp, o), !.sp = @ + 1]

\* push of an object the VM allocates
pushNew(v, o) ==
  IF VMFailed(v) THEN v ELSE push([v EXCEPT !.heap = @ + 1], o)

StackTop(v) == IF v.sp = 0 THEN Nil ELSE StackAt(v, v.sp - 1)

\* a variant that reads the slot below sp
LastPoppedBelowSp(v) == StackAt(v, v.sp - 1)

LastPoppedStackElem(v) == StackAt(v, v.sp)

nativeBoolToBooleanObject(input) == IF input THEN True ELSE False

\* a variant that takes the integer 0 for falsy
isTruthyButZero(obj) ==
  CASE obj.type = NullObj -> FALSE
    [] obj.type = BooleanObj -> obj.Value
    [] obj.type = IntegerObj -> obj.Value # 0
    [] OTHER -> TRUE

isTruthy(obj) ==
  CASE obj.type = NullObj -> FALSE
    [] obj.type = BooleanObj -> obj.Value
    [] OTHER -> TRUE


\* a variant that rounds the quotient down
QuotientRoundedDown(l, r) == l \div r
\* Go's integer division, which truncates toward zero
Quotient(l, r) ==
  IF (l >= 0) = (r > 0) THEN (IF l >= 0 THEN l ELSE -l) \div (IF r > 0 THEN r ELSE -r)
  ELSE -((IF l >= 0 THEN l ELSE -l) \div (IF r > 0 THEN r ELSE -r))

executeBinaryIntegerOperation(v, op, left, right) ==
  CASE op = OpAdd -> pushNew(v, Integer(v.heap, left.Value + right.Value))
    [] op = OpSub -> pushNew(v, Integer(v.heap, left.Value - right.Value))
    [] op = OpMul -> pushNew(v, Integer(v.heap, left.Value * right.Value))
    [] op = OpDiv ->
         IF right.Value = 0 THEN GoPanic(v, "integer divide by zero")
         ELSE pushNew(v, Integer(v.heap, Quotient(left.Value, right.Value)))
    [] OTHER -> ReturnError(v, <<"unknown integer operator: ", op>>)

\* a variant that puts the right operand's content first
executeBinaryStringOperationReversed(v, op, left, right) ==
  IF op # OpAdd THEN ReturnError(v, <<"unknown string operator: ", op>>)
  ELSE pushNew(v, String(v.heap, right.Value \o left.Value))


executeBinaryStringOperation(v, op, left, right) ==
  IF op # OpAdd THEN ReturnError(v, <<"unknown string operator: ", op>>)
  ELSE pushNew(v, String(v.heap, left.Value \o right.Value))

\* a variant that names the right operand's type first
executeBinaryOperationRightFirst(v, op) ==
  LET right == Top(v)
      v1 == pop(v)
      left == Top(v1)
      v2 == pop(v1)
  IN
  IF VMFailed(v2) THEN v2
  ELSE IF left.type = NilType \/ right.type = NilType
  THEN GoPanic(v2, "nil pointer dereference")
  ELSE IF left.type = IntegerObj /\ right.type = IntegerObj
  THEN executeBinaryIntegerOperation(v2, op, left, right)
  ELSE IF left.type = StringObj /\ right.type = StringObj
  THEN executeBinaryStringOperation(v2, op, left, right)
  ELSE ReturnError(v2, <<"unsupported types for binary operation: ",
                         right.type, " ", left.type>>)


executeBinaryOperation(v, op) ==
  LET right == Top(v)
      v1 == pop(v)
      left == Top(v1)
      v2 == pop(v1)
  IN
  IF VMFailed(v2) THEN v2
  ELSE IF left.type = NilType \/ right.type = NilType
  THEN GoPanic(v2, "nil pointer dereference")
  ELSE IF left.type = IntegerObj /\ right.type = IntegerObj
  THEN executeBinaryIntegerOperation(v2, op, left, right)
  ELSE IF left.type = StringObj /\ right.type = StringObj
  THEN executeBinaryStringOperation(v2, op, left, right)
  ELSE ReturnError(v2, <<"unsupported types for binary operation: ",
                         left.type, " ", right.type>>)

\* a variant that compares two Integers as it compares the other objects
executeIntegerComparisonByIdentity(v, op, left, right) ==
  IF left.type # IntegerObj \/ right.type # IntegerObj
  THEN GoPanic(v, "interface conversion")
  ELSE CASE op = OpEqual ->
              push(v, nativeBoolToBooleanObject(SameObject(right, left)))
         [] op = OpNotEqual ->
              push(v, nativeBoolToBooleanObject(~SameObject(right, left)))
         [] op = OpGreaterThan ->
              push(v, nativeBoolToBooleanObject(left.Value > right.Value))
         [] OTHER -> ReturnError(v, <<"unknown operator: ", op>>)

executeIntegerComparison(v, op, left, right) ==
  IF left.type # IntegerObj \/ right.type # IntegerObj
  THEN GoPanic(v, "interface conversion")
  ELSE CASE op = OpEqual ->
              push(v, nativeBoolToBooleanObject(right.Value = left.Value))
         [] op = OpNotEqual ->
              push(v, nativeBoolToBooleanObject(right.Value # left.Value))
         [] op = OpGreaterThan ->
              push(v, nativeBoolToBooleanObject(left.Value > right.Value))
         [] OTHER -> ReturnError(v, <<"unknown operator: ", op>>)

\* a variant that compares two Strings by their contents
executeComparisonByContents(v, op) ==
  LET right == Top(v)
      v1 == pop(v)
      left == Top(v1)
      v2 == pop(v1)
      same == IF left.type = StringObj /\ right.type = StringObj
              THEN left.Value = right.Value ELSE SameObject(right, left)
  IN
  IF VMFailed(v2) THEN v2
  ELSE IF left.type = NilType
            \/ (left.type # IntegerObj /\ right.type = NilType)
  THEN GoPanic(v2, "nil pointer dereference")
  ELSE IF left.type = IntegerObj \/ right.type = IntegerObj
  THEN executeIntegerComparison(v2, op, left, right)
  ELSE CASE op = OpEqual -> push(v2, nativeBoolToBooleanObject(same))
         [] op = OpNotEqual -> push(v2, nativeBoolToBooleanObject(~same))
         [] OTHER -> ReturnError(v2, <<"unknown operator: ", op, " ",
                                       left.type, " ", right.type>>)

executeComparison(v, op) ==
  LET right == Top(v)
      v1 == pop(v)
      left == Top(v1)
      v2 == pop(v1)
  IN
  IF VMFailed(v2) THEN v2
  ELSE IF left.type = NilType
            \/ (left.type # IntegerObj /\ right.type = NilType)
  THEN GoPanic(v2, "nil pointer dereference")
  ELSE IF left.type = IntegerObj \/ right.type = IntegerObj
  THEN executeIntegerComparison(v2, op, left, right)
  ELSE CASE op = OpEqual -> push(v2, nativeBoolToBooleanObject(SameObject(right, left)))
         [] op = OpNotEqual ->
              push(v2, nativeBoolToBooleanObject(~SameObject(right, left)))
         [] OTHER -> ReturnError(v2, <<"unknown operator: ", op, " ",
                                       left.type, " ", right.type>>)

executeMinusOperator(v) ==
  LET operand == Top(v)
      v1 == pop(v)
  IN
  IF VMFailed(v1) THEN v1
  ELSE IF operand.type = NilType THEN GoPanic(v1, "nil pointer dereference")
  ELSE IF operand.type # IntegerObj
  THEN ReturnError(v1, <<"unsupported type for negation: ", operand.type>>)
  ELSE pushNew(v1, Integer(v1.heap, -operand.Value))

\* a variant that takes the Integer 0 for false
executeBangOperatorButZero(v) ==
  LET operand == Top(v)
      v1 == pop(v)
  IN
  CASE SameObject(operand, True) -> push(v1, False)
    [] SameObject(operand, False) -> push(v1, True)
    [] SameObject(operand, Null) -> push(v1, True)
    [] operand.type = IntegerObj /\ operand.Value = 0 -> push(v1, True)
    [] OTHER -> push(v1, False)

executeBangOperator(v) ==
  LET operand == Top(v)
      v1 == pop(v)
  IN
  CASE SameObject(operand, True) -> push(v1, False)
    [] SameObject(operand, False) -> push(v1, True)
    [] SameObject(operand, Null) -> push(v1, True)
    [] OTHER -> push(v1, False)

\* a variant that fails on an index out of range
executeArrayIndexStrict(v, array, index) ==
  LET i == index.Value
      max == Len(array.Elements) - 1
  IN IF i < 0 \/ i > max THEN ReturnError(v, <<"index out of range: ", i>>)
     ELSE push(v, array.Elements[i + 1])

executeArrayIndex(v, array, index) ==
  LET i == index.Value
      max == Len(array.Elements) - 1
  IN IF i < 0 \/ i > max THEN push(v, Null) ELSE push(v, array.Elements[i + 1])

\* the pair stored under a hash key: the last one written, <<>> when absent
RECURSIVE LookupPair(_, _)
LookupPair(pairs, hk) ==
  IF pairs = <<>> THEN <<>>
  ELSE IF pairs[Len(pairs)].hk = hk THEN <<pairs[Len(pairs)]>>
  ELSE LookupPair(SubSeq(pairs, 1, Len(pairs) - 1), hk)

executeHashIndex(v, hash, index) ==
  IF ~Hashable(index)
  THEN IF index.type = NilType THEN GoPanic(v, "nil pointer dereference")
       ELSE ReturnError(v, <<"unusable as hash key: ", index.type>>)
  ELSE LET found == LookupPair(hash.Pairs, HashKey(index)) IN
       IF found = <<>> THEN push(v, Null) ELSE push(v, found[1].Value)

executeIndexExpression(v, left, index) ==
  IF VMFailed(v) THEN v
  ELSE IF left.type = NilType \/ (left.type = ArrayObj /\ index.type = NilType)
  THEN GoPanic(v, "nil pointer dereference")
  ELSE IF left.type = ArrayObj /\ index.type = IntegerObj
  THEN executeArrayIndex(v, left, index)
  ELSE IF left.type = HashObj THEN executeHashIndex(v, left, index)
  ELSE ReturnError(v, <<"index operator not supported: ", left.type>>)

\* the pairs of stack[startIndex .. endIndex-1], up to the first key that is
\* not hashable; bad is that key, or <<>>
RECURSIVE hashedPairs(_, _, _)
hashedPairs(v, startIndex, endIndex) ==
  IF startIndex >= endIndex THEN [pairs |-> <<>>, bad |-> <<>>]
  ELSE LET key == StackAt(v, startIndex)
           value == StackAt(v, startIndex + 1)
       IN IF ~Hashable(key) THEN [pairs |-> <<>>, bad |-> <<key>>]
          ELSE LET rest == hashedPairs(v, startIndex + 2, endIndex) IN
               [pairs |-> <<[hk |-> HashKey(key), Key |-> key, Value |-> value]>>
                            \o rest.pairs,
                bad |-> rest.bad]

\* OpHash: buildHash(sp-numElements, sp), sp -= numElements, push(hash)
buildHash(v, numElements) ==
  LET built == hashedPairs(v, v.sp - numElements, v.sp) IN
  IF VMFailed(v) THEN v
  ELSE IF ~InStack(v.sp - numElements) /\ numElements > 0
  THEN GoPanic(v, "index out of range")
  ELSE IF built.bad # <<>>
  THEN IF built.bad[1].type = NilType THEN GoPanic(v, "nil pointer dereference")
       ELSE ReturnError(v, <<"unusable as hash key: ", built.bad[1].type>>)
  ELSE pushNew(SetSp(v, v.sp - numElements), Hash(v.heap, built.pairs))

\* OpArray: buildArray(sp-numElements, sp), sp -= numElements, push(array)
buildArray(v, numElements) ==
  IF VMFailed(v) THEN v
  ELSE IF ~InStack(v.sp - numElements) /\ numElements > 0
  THEN GoPanic(v, "index out of range")
  ELSE pushNew(SetSp(v, v.sp - numElements),
               Array(v.heap, [i \in 1 .. numElements |->
                                StackAt(v, v.sp - numElements + i - 1)]))

popFrame(v) ==
  IF VMFailed(v) THEN v
  ELSE IF v.framesIndex - 1 < 0 THEN GoPanic(v, "index out of range")
  ELSE [v EXCEPT !.framesIndex = @ - 1]

pushFrame(v, f) ==
  IF VMFailed(v) THEN v
  ELSE IF v.framesIndex >= MaxFrames \/ v.framesIndex < 0
  THEN GoPanic(v, "index out of range")
  ELSE [v EXCEPT !.frames = SetSlot(@, v.framesIndex, f), !.framesIndex = @ + 1]

\* a variant that does not compare numArgs with NumParameters
callClosureUnchecked(v, cl, numArgs) ==
  LET frame == NewFrame(cl, v.sp - numArgs) IN
  SetSp(pushFrame(v, frame), frame.basePointer + FunctionOf(v, cl).NumLocals)

callClosure(v, cl, numArgs) ==
  IF numArgs # FunctionOf(v, cl).NumParameters
  THEN ReturnError(v, <<"wrong number of arguments: want=",
                        FunctionOf(v, cl).NumParameters, ", got=", numArgs>>)
  ELSE LET frame == NewFrame(cl, v.sp - numArgs) IN
       SetSp(pushFrame(v, frame), frame.basePointer + FunctionOf(v, cl).NumLocals)

executeCall(v, numArgs) ==
  LET callee == StackAt(v, v.sp - 1 - numArgs) IN
  IF VMFailed(v) THEN v
  ELSE IF ~InStack(v.sp - 1 - numArgs) THEN GoPanic(v, "index out of range")
  ELSE IF callee.type = ClosureObj THEN callClosure(v, callee, numArgs)
  ELSE ReturnError(v, <<"calling non-function and non-built-in">>)

\* a variant that captures the slots one above the free values
pushClosureShifted(v, constIndex, numFree) ==
  IF VMFailed(v) THEN v
  ELSE pushNew(SetSp(v, v.sp - numFree),
               Closure(v.heap, constIndex,
                       [i \in 1 .. numFree |-> StackAt(v, v.sp - numFree + i)]))

pushClosure(v, constIndex, numFree) ==
  IF VMFailed(v) THEN v
  ELSE IF constIndex >= Len(v.constants) THEN GoPanic(v, "index out of range")
  ELSE IF v.constants[constIndex + 1].type # CompiledFunctionObj
  THEN ReturnError(v, <<"not a function: ", constIndex>>)
  ELSE IF numFree > 0 /\ ~InStack(v.sp - numFree)
  THEN GoPanic(v, "index out of range")
  ELSE pushNew(SetSp(v, v.sp - numFree),
               Closure(v.heap, constIndex,
                       [i \in 1 .. numFree |-> StackAt(v, v.sp - numFree + i - 1)]))

\* for vm.currentFrame().ip < len(vm.currentFrame().Instructions())-1
RunCondition(v) ==
  currentFrame(v).ip < Len(Instructions(v, currentFrame(v))) - 1

RunOpConstant(v, ins, ip) ==
  LET constIndex == ReadUint16(ins, ip + 1)
      v1 == AddIp(v, 2)
  IN IF constIndex >= Len(v.constants) THEN GoPanic(v1, "index out of range")
     ELSE push(v1, v.constants[constIndex + 1])

RunOpJumpNotTruthy(v, ins, ip) ==
  LET pos == ReadUint16(ins, ip + 1)
      v1 == AddIp(v, 2)
      condition == Top(v1)
      v2 == pop(v1)
  IN IF ~isTruthy(condition) THEN SetIp(v2, pos - 1) ELSE v2

RunOpJump(v, ins, ip) == SetIp(v, ReadUint16(ins, ip + 1) - 1)

\* a variant that stores the top of the stack without popping it
RunOpSetGlobalKeeping(v, ins, ip) ==
  LET globalIndex == ReadUint16(ins, ip + 1)
      v1 == AddIp(v, 2)
  IN IF VMFailed(v1) THEN v1
     ELSE [v1 EXCEPT !.globals = SetSlot(@, globalIndex, Top(v1))]

RunOpSetGlobal(v, ins, ip) ==
  LET globalIndex == ReadUint16(ins, ip + 1)
      v1 == AddIp(v, 2)
      v2 == pop(v1)
  IN IF VMFailed(v2) THEN v2
     ELSE [v2 EXCEPT !.globals = SetSlot(@, globalIndex, Top(v1))]

RunOpGetGlobal(v, ins, ip) ==
  push(AddIp(v, 2), GlobalAt(v, ReadUint16(ins, ip + 1)))

RunOpHash(v, ins, ip) == buildHash(AddIp(v, 2), ReadUint16(ins, ip + 1))

RunOpArray(v, ins, ip) == buildArray(AddIp(v, 2), ReadUint16(ins, ip + 1))

RunOpIndex(v) ==
  LET index == Top(v)
      v1 == pop(v)
      left == Top(v1)
      v2 == pop(v1)
  IN executeIndexExpression(v2, left, index)

RunOpCall(v, ins, ip) == executeCall(AddIp(v, 1), ReadUint8(ins, ip + 1))

RunOpReturnValue(v) ==
  LET returnValue == Top(v)
      v1 == pop(v)
      frame == currentFrame(v1)
      v2 == popFrame(v1)
  IN push(SetSp(v2, frame.basePointer - 1), returnValue)

RunOpReturn(v) ==
  LET frame == currentFrame(v)
      v1 == popFrame(v)
  IN push(SetSp(v1, frame.basePointer - 1), Null)

RunOpSetLocal(v, ins, ip) ==
  LET localIndex == ReadUint8(ins, ip + 1)
      v1 == AddIp(v, 1)
      frame == currentFrame(v1)
      v2 == pop(v1)
  IN IF VMFailed(v2) THEN v2
     ELSE IF ~InStack(frame.basePointer + localIndex)
     THEN GoPanic(v2, "index out of range")
     ELSE [v2 EXCEPT !.stack = SetSlot(@, frame.basePointer + localIndex, Top(v1))]

RunOpGetLocal(v, ins, ip) ==
  LET localIndex == ReadUint8(ins, ip + 1)
      v1 == AddIp(v, 1)
      frame == currentFrame(v1)
  IN IF ~InStack(frame.basePointer + localIndex)
     THEN GoPanic(v1, "index out of range")
     ELSE push(v1, StackAt(v1, frame.basePointer + localIndex))

RunOpClosure(v, ins, ip) ==
  pushClosure(AddIp(v, 3), ReadUint16(ins, ip + 1), ReadUint8(ins, ip + 3))

RunOpGetFree(v, ins, ip) ==
  LET freeIndex == ReadUint8(ins, ip + 1)
      v1 == AddIp(v, 1)
      currentClosure == currentFrame(v1).cl
  IN IF freeIndex >= Len(currentClosure.Free) THEN GoPanic(v1, "index out of range")
     ELSE push(v1, currentClosure.Free[freeIndex + 1])

\* the switch of Run on the opcode at ip, ip being already incremented
Execute(v, ins, ip, op) ==
  CASE op = OpConstant -> RunOpConstant(v, ins, ip)
    [] op = OpPop -> pop(v)
    [] op \in {OpAdd, OpSub, OpMul, OpDiv} -> executeBinaryOperation(v, op)
    [] op = OpTrue -> push(v, True)
    [] op = OpFalse -> push(v, False)
    [] op \in {OpEqual, OpNotEqual, OpGreaterThan} -> executeComparison(v, op)
    [] op = OpMinus -> executeMinusOperator(v)
    [] op = OpBang -> executeBangOperator(v)
    [] op = OpJumpNotTruthy -> RunOpJumpNotTruthy(v, ins, ip)
    [] op = OpJump -> RunOpJump(v, ins, ip)
    [] op = OpNull -> push(v, Null)
    [] op = OpSetGlobal -> RunOpSetGlobal(v, ins, ip)
    [] op = OpGetGlobal -> RunOpGetGlobal(v, ins, ip)
    [] op = OpHash -> RunOpHash(v, ins, ip)
    [] op = OpArray -> RunOpArray(v, ins, ip)
    [] op = OpIndex -> RunOpIndex(v)
    [] op = OpCall -> RunOpCall(v, ins, ip)
    [] op = OpReturnValue -> RunOpReturnValue(v)
    [] op = OpReturn -> RunOpReturn(v)
    [] op = OpSetLocal -> RunOpSetLocal(v, ins, ip)
    [] op = OpGetLocal -> RunOpGetLocal(v, ins, ip)
    [] op = OpClosure -> RunOpClosure(v, ins, ip)
    [] op = OpGetFree -> RunOpGetFree(v, ins, ip)
    [] OTHER -> v

\* the opcode the next iteration of Run fetches
NextOp(v) == Instructions(v, currentFrame(v))[currentFrame(v).ip + 2]

\* one iteration of the loop of Run: fetch, decode, execute
RunIteration(v) ==
  LET ip == currentFrame(v).ip + 1
      ins == Instructions(v, currentFrame(v))
  IN Execute(SetIp(v, ip), ins, ip, ins[ip + 1])

(***************************************************************************)
(* The programs: the ASTs the parser hands to Compile.  Each entry holds  *)
(* the program, the value its last statement denotes (expected), the      *)
(* integer literals of its operands in source order (order) and the       *)
(* parameters of its family.                                               *)
(***************************************************************************)
Program(stmts) == [kind |-> "Program", Statements |-> stmts]
ExprStmt(e) == [kind |-> "ExpressionStatement", Expression |-> e]
LetStmt(name, value) == [kind |-> "LetStatement", Name |-> name, Value |-> value]
RetStmt(value) == [kind |-> "ReturnStatement", ReturnValue |-> value]
Block(stmts) == [kind |-> "BlockStatement", Statements |-> stmts]
Ident(name) == [kind |-> "Identifier", Value |-> name]
IntLit(n) == [kind |-> "IntegerLiteral", Value |-> n]
StrLit(s) == [kind |-> "StringLiteral", Value |-> s]
BoolLit(b) == [kind |-> "Boolean", Value |-> b]
ArrLit(els) == [kind |-> "ArrayLiteral", Elements |-> els]
HashLit(pairs) == [kind |-> "HashLiteral", Pairs |-> pairs]
Prefix(op, right) == [kind |-> "PrefixExpression", Operator |-> op, Right |-> right]
Infix(left, op, right) ==
  [kind |-> "InfixExpression", Operator |-> op, Left |-> left, Right |-> right]
IfExpr(cond, cons, alt) ==
  [kind |-> "IfExpression", Condition |-> cond, Consequence |-> cons,
   Alternative |-> alt]
Index(left, index) == [kind |-> "IndexExpression", Left |-> left, Index |-> index]
Call(fn, args) == [kind |-> "CallExpression", Function |-> fn, Arguments |-> args]
Fn(params, body) ==
  [kind |-> "FunctionLiteral", Parameters |-> params, Body |-> Block(body)]

\* the source text -n is a prefix expression on the literal n
Lit(n) == IF n < 0 THEN Prefix("-", IntLit(-n)) ELSE IntLit(n)

\* expected values
ExpInt(n) == [type |-> IntegerObj, Value |-> n]
ExpBool(b) == [type |-> BooleanObj, Value |-> b]
ExpNull == [type |-> NullObj]
ExpStr(s) == [type |-> StringObj, Value |-> s]
ExpInts(ns) == [type |-> ArrayObj, Ints |-> ns]
ExpNone == [type |-> "none"]

\* an object is the expected value
Matches(o, e) ==
  /\ o.type = e.type
  /\ CASE e.type \in {IntegerObj, BooleanObj, StringObj} -> o.Value = e.Value
       [] e.type = ArrayObj ->
            /\ Len(o.Elements) = Len(e.Ints)
            /\ \A i \in 1 .. Len(e.Ints) :
                 o.Elements[i].type = IntegerObj /\ o.Elements[i].Value = e.Ints[i]
       [] OTHER -> TRUE

Entry(family, ast, expected) ==
  [family |-> family, ast |-> ast, expected |-> expected, p |-> <<>>]

\* an entry of a family with parameters p
EntryP(family, ast, expected, p) ==
  [family |-> family, ast |-> ast, expected |-> expected, p |-> p]

Smon == <<109, 111, 110>>
Skey == <<107, 101, 121>>
Sbanana == <<98, 97, 110, 97, 110, 97>>

P1(e) == Program(<<ExprStmt(e)>>)

\* the programs of the VM's test tables (TestIntegerArithmetic ... TestClosures)
TestPrograms == <<
  Entry("test", P1(IntLit(1)), ExpInt(1)),
  Entry("test", P1(Infix(IntLit(1), "-", IntLit(2))), ExpInt(-1)),
  Entry("test", P1(Infix(Infix(Infix(Infix(IntLit(50), "/", IntLit(2)), "*", IntLit(2)),
                               "+", IntLit(10)), "-", IntLit(5))), ExpInt(55)),
  Entry("test", P1(Infix(IntLit(5), "*", Infix(IntLit(2), "+", IntLit(10)))), ExpInt(60)),
  Entry("test", P1(Infix(Infix(Prefix("-", IntLit(50)), "+", IntLit(100)), "+",
                         Prefix("-", IntLit(50)))), ExpInt(0)),
  Entry("test", P1(BoolLit(TRUE)), ExpBool(TRUE)),
  Entry("test", P1(Infix(IntLit(1), "==", IntLit(1))), ExpBool(TRUE)),
  Entry("test", P1(Infix(IntLit(1), "!=", IntLit(2))), ExpBool(TRUE)),
  Entry("test", P1(Infix(BoolLit(TRUE), "==", BoolLit(FALSE))), ExpBool(FALSE)),
  Entry("test", P1(Infix(BoolLit(FALSE), "!=", BoolLit(TRUE))), ExpBool(TRUE)),
  Entry("test", P1(Infix(Infix(IntLit(1), "<", IntLit(2)), "==", BoolLit(TRUE))), ExpBool(TRUE)),
  Entry("test", P1(Infix(Infix(IntLit(1), ">", IntLit(2)), "==", BoolLit(FALSE))), ExpBool(TRUE)),
  Entry("test", P1(Prefix("!", IntLit(5))), ExpBool(FALSE)),
  Entry("test", P1(Prefix("!", Prefix("!", IntLit(5)))), ExpBool(TRUE)),
  Entry("test", P1(Prefix("!", IfExpr(BoolLit(FALSE), Block(<<ExprStmt(IntLit(5))>>), NoNode))),
        ExpBool(TRUE)),
  Entry("test", P1(IfExpr(IfExpr(BoolLit(FALSE), Block(<<ExprStmt(IntLit(10))>>), NoNode),
                      Block(<<ExprStmt(IntLit(10))>>), Block(<<ExprStmt(IntLit(20))>>))),
        ExpInt(20)),
  Entry("test", Program(<<LetStmt("one", IntLit(1)),
                          LetStmt("two", Infix(Ident("one"), "+", Ident("one"))),
                          ExprStmt(Infix(Ident("one"), "+", Ident("two")))>>),
        ExpInt(3)),
  Entry("test", P1(Infix(Infix(StrLit(Smon), "+", StrLit(Skey)), "+", StrLit(Sbanana))),
        ExpStr(Smon \o Skey \o Sbanana)),
  Entry("test", P1(ArrLit(<<>>)), ExpInts(<<>>)),
  Entry("test", P1(ArrLit(<<Infix(IntLit(1), "+", IntLit(2)), Infix(IntLit(3), "*", IntLit(4)),
                         Infix(IntLit(5), "+", IntLit(6))>>)), ExpInts(<<3, 12, 11>>)),
  Entry("test", P1(Index(ArrLit(<<IntLit(1), IntLit(2), IntLit(3)>>), Infix(IntLit(0), "+", IntLit(2)))),
        ExpInt(3)),
  Entry("test", P1(Index(Index(ArrLit(<<ArrLit(<<IntLit(1), IntLit(1), IntLit(1)>>)>>), IntLit(0)), IntLit(0))),
        ExpInt(1)),
  Entry("test", P1(Index(ArrLit(<<>>), IntLit(0))), ExpNull),
  Entry("test", P1(Index(ArrLit(<<IntLit(1)>>), Prefix("-", IntLit(1)))), ExpNull),
  Entry("test", P1(Index(HashLit(<<<<IntLit(1), IntLit(1)>>, <<IntLit(2), IntLit(2)>>>>), IntLit(2))),
        ExpInt(2)),
  Entry("test", P1(Index(HashLit(<<<<IntLit(1), IntLit(1)>>>>), IntLit(0))), ExpNull),
  Entry("test", P1(Index(HashLit(<<>>), IntLit(0))), ExpNull),
  Entry("test",
        Program(<<LetStmt("returnsOne", Fn(<<>>, <<ExprStmt(IntLit(1))>>)),
                  LetStmt("returnsOneReturner", Fn(<<>>, <<ExprStmt(Ident("returnsOne"))>>)),
                  ExprStmt(Call(Call(Ident("returnsOneReturner"), <<>>), <<>>))>>),
        ExpInt(1)),
  Entry("test",
        Program(<<LetStmt("returnsOneReturner",
                      Fn(<<>>, <<LetStmt("returnsOne", Fn(<<>>, <<ExprStmt(IntLit(1))>>)),
                                 ExprStmt(Ident("returnsOne"))>>)),
                  ExprStmt(Call(Call(Ident("returnsOneReturner"), <<>>), <<>>))>>),
        ExpInt(1)),
  Entry("test",
        Program(<<LetStmt("globalNum", IntLit(10)),
                  LetStmt("sum", Fn(<<"a", "b">>,
                                <<LetStmt("c", Infix(Ident("a"), "+", Ident("b"))),
                                  ExprStmt(Infix(Ident("c"), "+", Ident("globalNum")))>>)),
                  LetStmt("outer", Fn(<<>>,
                      <<ExprStmt(Infix(Infix(Call(Ident("sum"), <<IntLit(1), IntLit(2)>>), "+",
                                             Call(Ident("sum"), <<IntLit(3), IntLit(4)>>)),
                                       "+", Ident("globalNum")))>>)),
                  ExprStmt(Infix(Call(Ident("outer"), <<>>), "+", Ident("globalNum")))>>),
        ExpInt(50)),
  Entry("test",
        Program(<<LetStmt("newClosure", Fn(<<"a">>, <<ExprStmt(Fn(<<>>, <<ExprStmt(Ident("a"))>>))>>)),
                  LetStmt("closure", Call(Ident("newClosure"), <<IntLit(99)>>)),
                  ExprStmt(Call(Ident("closure"), <<>>))>>),
        ExpInt(99)),
  Entry("test",
        Program(<<LetStmt("newAdderOuter", Fn(<<"a", "b">>,
                      <<LetStmt("c", Infix(Ident("a"), "+", Ident("b"))),
                        ExprStmt(Fn(<<"d">>,
                          <<LetStmt("e", Infix(Ident("d"), "+", Ident("c"))),
                            ExprStmt(Fn(<<"f">>,
                              <<ExprStmt(Infix(Ident("e"), "+", Ident("f")))>>))>>))>>)),
                  LetStmt("newAdderInner", Call(Ident("newAdderOuter"), <<IntLit(1), IntLit(2)>>)),
                  LetStmt("adder", Call(Ident("newAdderInner"), <<IntLit(3)>>)),
                  ExprStmt(Call(Ident("adder"), <<IntLit(8)>>))>>),
        ExpInt(14)),
  Entry("test",
        Program(<<LetStmt("a", IntLit(1)),
                  LetStmt("newAdderOuter", Fn(<<"b">>,
                      <<ExprStmt(Fn(<<"c">>,
                          <<ExprStmt(Fn(<<"d">>,
                              <<ExprStmt(Infix(Infix(Infix(Ident("a"), "+", Ident("b")),
                                                     "+", Ident("c")), "+", Ident("d")))>>))>>))>>)),
                  LetStmt("newAdderInner", Call(Ident("newAdderOuter"), <<IntLit(2)>>)),
                  LetStmt("adder", Call(Ident("newAdderInner"), <<IntLit(3)>>)),
                  ExprStmt(Call(Ident("adder"), <<IntLit(8)>>))>>),
        ExpInt(14)),
  Entry("test",
        Program(<<LetStmt("newClosure", Fn(<<"a", "b">>,
                      <<LetStmt("one", Fn(<<>>, <<ExprStmt(Ident("a"))>>)),
                        LetStmt("two", Fn(<<>>, <<ExprStmt(Ident("b"))>>)),
                        ExprStmt(Fn(<<>>, <<ExprStmt(Infix(Call(Ident("one"), <<>>), "+",
                                                           Call(Ident("two"), <<>>)))>>))>>)),
                  LetStmt("closure", Call(Ident("newClosure"), <<IntLit(9), IntLit(90)>>)),
                  ExprStmt(Call(Ident("closure"), <<>>))>>),
        ExpInt(99))
>>

(***************************************************************************)
(* Families of programs over bounded parameters                           *)
(***************************************************************************)
\* integer operands range over MinInt .. MaxInt
MaxInt == 2
MinInt == 0 - 1
Ints == MinInt .. MaxInt
NInts == MaxInt - MinInt + 1
\* the k-th pair (k from 0) of Ints x Ints, and the k-th triple of naturals
PairA(k) == MinInt + (k \div NInts)
PairB(k) == MinInt + (k % NInts)

\* a < b
LtFamily ==
  [k \in 1 .. NInts * NInts |->
     EntryP("lt", P1(Infix(Lit(PairA(k - 1)), "<", Lit(PairB(k - 1)))),
            ExpBool(PairA(k - 1) < PairB(k - 1)), <<PairA(k - 1), PairB(k - 1)>>)]

\* (a + 1) < (b * 2)
LtExprFamily ==
  [k \in 1 .. NInts * NInts |->
     EntryP("ltexpr",
            P1(Infix(Infix(Lit(PairA(k - 1)), "+", IntLit(1)), "<",
                     Infix(Lit(PairB(k - 1)), "*", IntLit(2)))),
            ExpBool(PairA(k - 1) + 1 < PairB(k - 1) * 2),
            <<PairA(k - 1), PairB(k - 1)>>)]

\* if (cond) { 10 } [else { 20 }]: the conditions, and whether each is truthy
IfNull == IfExpr(BoolLit(FALSE), Block(<<ExprStmt(IntLit(1))>>), NoNode)
Conditions == <<
  <<BoolLit(TRUE), TRUE>>, <<BoolLit(FALSE), FALSE>>,
  <<IntLit(1), TRUE>>, <<IntLit(0), TRUE>>,
  <<Infix(IntLit(1), "<", IntLit(2)), TRUE>>,
  <<Infix(IntLit(1), ">", IntLit(2)), FALSE>>,
  <<IfNull, FALSE>>,
  <<Prefix("!", IfNull), TRUE>>,
  <<StrLit(Smon), TRUE>>,
  <<ArrLit(<<>>), TRUE>> >>

IfFamily ==
  [k \in 1 .. 2 * Len(Conditions) |->
     LET cond == Conditions[(k + 1) \div 2]
         hasElse == (k % 2 = 0)
     IN EntryP("if",
               P1(IfExpr(cond[1], Block(<<ExprStmt(IntLit(10))>>),
                         IF hasElse THEN Block(<<ExprStmt(IntLit(20))>>) ELSE NoNode)),
               IF cond[2] THEN ExpInt(10) ELSE IF hasElse THEN ExpInt(20) ELSE ExpNull,
               <<cond[2], hasElse>>)]

\* function(p1, ..., pP) { 7 }(1, ..., N), directly and through a global
MaxParams == 2
ParamNames == <<"a", "b", "c", "d", "e", "f", "g", "h">>
ArityFn(P) == Fn(SubSeq(ParamNames, 1, P), <<ExprStmt(IntLit(7))>>)
ArityArgs(N) == [i \in 1 .. N |-> IntLit(i)]
ArityExpected(P, N) ==
  IF P = N THEN ExpInt(7)
  ELSE [type |-> "error", err |-> <<"wrong number of arguments: want=", P, ", got=", N>>]

ArityFamily ==
  [k \in 1 .. 2 * (MaxParams + 1) * (MaxParams + 1) |->
     LET j == (k - 1) \div 2
         P == j \div (MaxParams + 1)
         N == j % (MaxParams + 1)
     IN EntryP("arity",
               IF k % 2 = 1
               THEN P1(Call(ArityFn(P), ArityArgs(N)))
               ELSE Program(<<LetStmt("fn", ArityFn(P)),
                              ExprStmt(Call(Ident("fn"), ArityArgs(N)))>>),
               ArityExpected(P, N), <<P, N>>)]

\* let newAdder = function(a, b) { function(c) { a + b + c } };
\* let adder = newAdder(A, B); [other calls;] adder(C);
MaxAdd == 2
NAdd == MaxAdd + 1
NewAdder ==
  LetStmt("newAdder",
          Fn(<<"a", "b">>,
             <<ExprStmt(Fn(<<"c">>,
                 <<ExprStmt(Infix(Infix(Ident("a"), "+", Ident("b")), "+", Ident("c")))>>))>>))
Noise ==
  <<LetStmt("noise", Fn(<<"x", "y">>,
                        <<LetStmt("z", Infix(Ident("x"), "*", Ident("y"))),
                          ExprStmt(ArrLit(<<Ident("z"), Ident("x"), Ident("y")>>))>>)),
    ExprStmt(Call(Ident("noise"), <<IntLit(7), IntLit(9)>>)),
    LetStmt("other", Call(Ident("newAdder"), <<IntLit(40), IntLit(50)>>)),
    ExprStmt(Call(Ident("other"), <<IntLit(60)>>))>>

AdderFamily ==
  [k \in 1 .. 2 * NAdd * NAdd * NAdd |->
     LET j == (k - 1) \div 2
         A == j \div (NAdd * NAdd)
         B == (j \div NAdd) % NAdd
         C == j % NAdd
     IN EntryP("adder",
               Program(<<NewAdder,
                         LetStmt("adder", Call(Ident("newAdder"), <<IntLit(A), IntLit(B)>>))>>
                       \o (IF k % 2 = 0 THEN Noise ELSE <<>>)
                       \o <<ExprStmt(Call(Ident("adder"), <<IntLit(C)>>))>>),
               ExpInt(A + B + C), <<A, B, C, k % 2 = 0>>)]

\* the recursive fibonacci program of TestRecursiveFibonacci, for fibonacci(n)
MaxFib == 7
RECURSIVE Fib(_)
Fib(n) == IF n < 2 THEN n ELSE Fib(n - 1) + Fib(n - 2)

Fibonacci ==
  LetStmt("fibonacci",
     Fn(<<"x">>,
        <<ExprStmt(IfExpr(Infix(Ident("x"), "==", IntLit(0)),
             Block(<<RetStmt(IntLit(0))>>),
             Block(<<ExprStmt(IfExpr(Infix(Ident("x"), "==", IntLit(1)),
                  Block(<<RetStmt(IntLit(1))>>),
                  Block(<<ExprStmt(Infix(
                      Call(Ident("fibonacci"), <<Infix(Ident("x"), "-", IntLit(1))>>),
                      "+",
                      Call(Ident("fibonacci"), <<Infix(Ident("x"), "-", IntLit(2))>>)))>>)))>>)))>>))

FibFamily ==
  [k \in 1 .. MaxFib + 1 |->
     EntryP("fib", Program(<<Fibonacci, ExprStmt(Call(Ident("fibonacci"), <<IntLit(k - 1)>>))>>),
            ExpInt(Fib(k - 1)), <<k - 1>>)]

\* k statements, lets and expression statements alternating, before a last
\* expression statement
MaxBefore == 3
Before(i) ==
  IF i % 2 = 1 THEN LetStmt(ParamNames[i], IntLit(100 + i))
  ELSE ExprStmt(Infix(Ident(ParamNames[i - 1]), "*", IntLit(2)))

BeforeFamily ==
  [k \in 1 .. MaxBefore + 1 |->
     EntryP("before",
            Program([i \in 1 .. k - 1 |-> Before(i)]
                    \o <<ExprStmt(Infix(IntLit(7), "+", IntLit(k - 1)))>>),
            ExpInt(7 + k - 1), <<k - 1>>)]

\* programs that end with a let statement: let a = n; 1; let a = n;
\* let a = function() { n }(); and two whose value is no integer
LetLastFamily ==
  [k \in 1 .. 3 * NInts + 2 |->
     LET n == MinInt + ((k - 1) % NInts)
         shape == (k - 1) \div NInts
     IN IF shape = 0
        THEN EntryP("letlast", Program(<<LetStmt("a", Lit(n))>>), ExpInt(n), <<0, n>>)
        ELSE IF shape = 1
        THEN EntryP("letlast", Program(<<ExprStmt(IntLit(1)), LetStmt("a", Lit(n))>>),
                    ExpInt(n), <<1, n>>)
        ELSE IF shape = 2
        THEN EntryP("letlast",
                    Program(<<LetStmt("a", Call(Fn(<<>>, <<ExprStmt(Lit(n))>>), <<>>))>>),
                    ExpInt(n), <<2, n>>)
        ELSE IF k = 3 * NInts + 1
        THEN EntryP("letlast", Program(<<LetStmt("a", IfNull)>>), ExpNull, <<3, 0>>)
        ELSE EntryP("letlast", Program(<<LetStmt("a", BoolLit(TRUE))>>),
                    ExpBool(TRUE), <<4, 0>>)]

\* function(a, b, c) { function() { r1 + ... + rL } }(1, 10, 100)() for every
\* sequence r of 1 to MaxRefs references to the parameters
MaxRefs == 3
RECURSIVE Power(_, _)
Power(b, e) == IF e = 0 THEN 1 ELSE b * Power(b, e - 1)
\* the j-th sequence (j from 0) of len positions of ParamNames[1 .. 3]
Refs(len, j) == [i \in 1 .. len |-> ((j \div Power(3, i - 1)) % 3) + 1]
RECURSIVE SumOf(_)
SumOf(refs) ==
  IF Len(refs) = 1 THEN Ident(ParamNames[refs[1]])
  ELSE Infix(SumOf(SubSeq(refs, 1, Len(refs) - 1)), "+",
             Ident(ParamNames[refs[Len(refs)]]))
RECURSIVE ValueOf(_)
ValueOf(refs) ==
  IF refs = <<>> THEN 0 ELSE Power(10, Head(refs) - 1) + ValueOf(Tail(refs))
Capturing(refs) ==
  P1(Call(Call(Fn(SubSeq(ParamNames, 1, 3),
                  <<ExprStmt(Fn(<<>>, <<ExprStmt(SumOf(refs))>>))>>),
               <<IntLit(1), IntLit(10), IntLit(100)>>),
          <<>>))
RECURSIVE FreeFamilyOf(_)
FreeFamilyOf(len) ==
  IF len = 0 THEN <<>>
  ELSE FreeFamilyOf(len - 1)
         \o [k \in 1 .. Power(3, len) |->
               EntryP("free", Capturing(Refs(len, k - 1)),
                      ExpInt(ValueOf(Refs(len, k - 1))), Refs(len, k - 1))]
FreeFamily == FreeFamilyOf(MaxRefs)

\* function literals by the shape of their body
ExpClosure == [type |-> ClosureObj]
One == ExprStmt(IntLit(1))
Bodies == <<
  <<>>,
  <<ExprStmt(IntLit(5))>>,
  <<ExprStmt(Infix(IntLit(5), "+", IntLit(10)))>>,
  <<RetStmt(Infix(IntLit(5), "+", IntLit(10)))>>,
  <<LetStmt("a", IntLit(1))>>,
  <<LetStmt("a", IntLit(1)), ExprStmt(Ident("a"))>>,
  <<One, ExprStmt(IntLit(2))>>,
  <<One, RetStmt(IntLit(2))>>,
  <<RetStmt(IntLit(2)), One>>,
  <<RetStmt(IntLit(2)), LetStmt("a", IntLit(1))>>,
  <<ExprStmt(IfExpr(BoolLit(TRUE), Block(<<One>>), Block(<<ExprStmt(IntLit(2))>>)))>>,
  <<ExprStmt(IfExpr(BoolLit(TRUE), Block(<<RetStmt(IntLit(1))>>), NoNode))>>,
  <<ExprStmt(IfExpr(BoolLit(TRUE), Block(<<>>), NoNode))>>,
  <<LetStmt("a", IfExpr(BoolLit(TRUE), Block(<<One>>), NoNode))>>,
  <<ExprStmt(Fn(<<>>, <<>>))>>,
  <<ExprStmt(Fn(<<>>, <<One>>))>>,
  <<RetStmt(Fn(<<>>, <<RetStmt(IntLit(1))>>))>>,
  <<ExprStmt(Ident("x"))>>,
  <<RetStmt(Ident("x"))>>,
  <<LetStmt("a", Ident("x"))>>,
  <<ExprStmt(Call(Ident("x"), <<>>))>>,
  <<ExprStmt(ArrLit(<<>>))>>,
  <<ExprStmt(Prefix("!", BoolLit(TRUE)))>> >>
FnFamily ==
  [k \in 1 .. Len(Bodies) |->
     EntryP("fn", P1(Fn(<<"x">>, Bodies[k])), ExpClosure, <<k>>)]

\* [10, ..., 10 + len - 1][i] for every length up to MaxElements and every
\* index from two below the first element to one above the last possible
MaxElements == 3
IndexFamily ==
  [k \in 1 .. (MaxElements + 1) * (MaxElements + 4) |->
     LET len == (k - 1) \div (MaxElements + 4)
         i == ((k - 1) % (MaxElements + 4)) - 2
     IN EntryP("index",
               P1(Index(ArrLit([j \in 1 .. len |-> IntLit(9 + j)]), Lit(i))),
               IF 0 <= i /\ i < len THEN ExpInt(10 + i) ELSE ExpNull,
               <<len, i>>)]
\* {1: 10, 2: 20, true: 30, "mon": 40}[key] and {}[key]
SomeHash ==
  HashLit(<<<<IntLit(1), IntLit(10)>>, <<IntLit(2), IntLit(20)>>,
            <<BoolLit(TRUE), IntLit(30)>>, <<StrLit(Smon), IntLit(40)>>>>)
HashIndexPrograms == <<
  EntryP("hashindex", P1(Index(SomeHash, IntLit(1))), ExpInt(10), <<TRUE>>),
  EntryP("hashindex", P1(Index(SomeHash, IntLit(2))), ExpInt(20), <<TRUE>>),
  EntryP("hashindex", P1(Index(SomeHash, BoolLit(TRUE))), ExpInt(30), <<TRUE>>),
  EntryP("hashindex", P1(Index(SomeHash, StrLit(Smon))), ExpInt(40), <<TRUE>>),
  EntryP("hashindex", P1(Index(SomeHash, Infix(IntLit(1), "+", IntLit(1)))),
         ExpInt(20), <<TRUE>>),
  EntryP("hashindex", P1(Index(SomeHash, IntLit(0))), ExpNull, <<FALSE>>),
  EntryP("hashindex", P1(Index(SomeHash, IntLit(3))), ExpNull, <<FALSE>>),
  EntryP("hashindex", P1(Index(SomeHash, Lit(0 - 1))), ExpNull, <<FALSE>>),
  EntryP("hashindex", P1(Index(SomeHash, BoolLit(FALSE))), ExpNull, <<FALSE>>),
  EntryP("hashindex", P1(Index(SomeHash, StrLit(Skey))), ExpNull, <<FALSE>>),
  EntryP("hashindex", P1(Index(SomeHash, StrLit(<<>>))), ExpNull, <<FALSE>>),
  EntryP("hashindex", P1(Index(HashLit(<<>>), IntLit(1))), ExpNull, <<FALSE>>),
  EntryP("hashindex", P1(Index(HashLit(<<>>), BoolLit(TRUE))), ExpNull, <<FALSE>>),
  EntryP("hashindex", P1(Index(HashLit(<<>>), StrLit(Smon))), ExpNull, <<FALSE>>)
>>

\* hash literals with two keys of the same text: {1: 2, 1: 3},
\* {"a": 1, a: 2} after let a = "b", and {1: 2, 2: 3, 1: 4}
ExpHash == [type |-> HashObj]
Sa == <<97>>
Sb == <<98>>
SameTextPrograms == <<
  Entry("sametext", P1(HashLit(<<<<IntLit(1), IntLit(2)>>, <<IntLit(1), IntLit(3)>>>>)),
        ExpHash),
  Entry("sametext",
        Program(<<LetStmt("a", StrLit(Sb)),
                  ExprStmt(HashLit(<<<<StrLit(Sa), IntLit(1)>>, <<Ident("a"), IntLit(2)>>>>))>>),
        ExpHash),
  Entry("sametext", P1(HashLit(<<<<IntLit(1), IntLit(2)>>, <<IntLit(2), IntLit(3)>>,
                                 <<IntLit(1), IntLit(4)>>>>)), ExpHash),
  \* {1: true, 1: false}
  Entry("sametext", P1(HashLit(<<<<IntLit(1), BoolLit(TRUE)>>,
                                 <<IntLit(1), BoolLit(FALSE)>>>>)), ExpHash)
>>

\* programs that use the identifier x: where no scope of the chain defines
\* it, with the instructions of the current scope emitted before the use;
\* and where the current or an enclosing scope defines it
ExpNil == [type |-> NilType]
X == Ident("x")
Undefined(ast, before) ==
  EntryP("undefined", ast,
         [type |-> "compile error", err |-> <<"undefined variable ", "x">>],
         <<before>>)
Defined(ast, expected) == EntryP("defined", ast, expected, <<>>)
IdentifierPrograms == <<
  Undefined(P1(X), <<>>),
  Undefined(P1(Infix(IntLit(1), "+", X)), Make(OpConstant, <<0>>)),
  Undefined(P1(Infix(X, "<", IntLit(1))), Make(OpConstant, <<0>>)),
  Undefined(Program(<<LetStmt("a", IntLit(1)), ExprStmt(Infix(Ident("a"), "+", X))>>),
            Make(OpConstant, <<0>>) \o Make(OpSetGlobal, <<0>>)
              \o Make(OpGetGlobal, <<0>>)),
  Undefined(P1(Fn(<<>>, <<ExprStmt(X)>>)), <<>>),
  Undefined(P1(Fn(<<"a">>, <<ExprStmt(Infix(Ident("a"), "+", X))>>)),
            Make(OpGetLocal, <<0>>)),
  Undefined(P1(Fn(<<"a">>, <<ExprStmt(Fn(<<"b">>,
              <<ExprStmt(Infix(Infix(Ident("a"), "+", Ident("b")), "+", X))>>))>>)),
            Make(OpGetFree, <<0>>) \o Make(OpGetLocal, <<0>>) \o Make(OpAdd, <<>>)),
  Undefined(Program(<<ExprStmt(Fn(<<"x">>, <<One>>)), ExprStmt(X)>>),
            Make(OpClosure, <<1, 0>>) \o Make(OpPop, <<>>)),
  Undefined(Program(<<ExprStmt(Fn(<<>>, <<LetStmt("x", IntLit(1))>>)), ExprStmt(X)>>),
            Make(OpClosure, <<1, 0>>) \o Make(OpPop, <<>>)),
  Undefined(Program(<<ExprStmt(X), LetStmt("x", IntLit(1))>>), <<>>),
  Undefined(P1(ArrLit(<<IntLit(1), X>>)), Make(OpConstant, <<0>>)),
  Undefined(P1(HashLit(<<<<IntLit(1), X>>>>)), Make(OpConstant, <<0>>)),
  Undefined(P1(Call(X, <<IntLit(1)>>)), <<>>),
  Undefined(P1(Call(Fn(<<"a">>, <<>>), <<X>>)), Make(OpClosure, <<0, 0>>)),
  Undefined(P1(Prefix("-", X)), <<>>),
  Undefined(P1(IfExpr(X, Block(<<One>>), NoNode)), <<>>),
  Undefined(P1(IfExpr(BoolLit(TRUE), Block(<<ExprStmt(X)>>), NoNode)),
            Make(OpTrue, <<>>) \o Make(OpJumpNotTruthy, <<9999>>)),
  Undefined(P1(Index(ArrLit(<<>>), X)), Make(OpArray, <<0>>)),
  Undefined(Program(<<RetStmt(X)>>), <<>>),
  Undefined(Program(<<LetStmt("y", X)>>), <<>>),
  Defined(Program(<<LetStmt("x", IntLit(1)), ExprStmt(X)>>), ExpInt(1)),
  Defined(Program(<<LetStmt("x", IntLit(1)),
                    ExprStmt(Call(Fn(<<>>, <<ExprStmt(X)>>), <<>>))>>), ExpInt(1)),
  Defined(P1(Call(Fn(<<"x">>, <<ExprStmt(X)>>), <<IntLit(1)>>)), ExpInt(1)),
  Defined(P1(Call(Call(Fn(<<"x">>, <<ExprStmt(Fn(<<>>, <<ExprStmt(X)>>))>>),
                       <<IntLit(1)>>), <<>>)), ExpInt(1)),
  Defined(P1(Call(Call(Call(
            Fn(<<"x">>, <<ExprStmt(Fn(<<>>, <<ExprStmt(Fn(<<>>, <<ExprStmt(X)>>))>>))>>),
            <<IntLit(1)>>), <<>>), <<>>)), ExpInt(1)),
  Defined(Program(<<LetStmt("x", X)>>), ExpNil),
  Defined(P1(Call(Fn(<<>>, <<LetStmt("x", IntLit(1)), ExprStmt(X)>>), <<>>)), ExpInt(1)),
  Defined(P1(Call(Call(Fn(<<>>, <<LetStmt("x", IntLit(1)),
                                  ExprStmt(Fn(<<>>, <<ExprStmt(X)>>))>>), <<>>), <<>>)),
          ExpInt(1))
>>

\* programs with the constants and the instructions expected of them
\* (TestIndexExpressions, TestIntegerArithmetic), and programs that repeat
\* a literal
ExpConstants(ast, expected, constants, code) ==
  EntryP("constants", ast, expected, <<constants, code>>)
ConstantPrograms == <<
  ExpConstants(P1(Index(ArrLit(<<IntLit(1), IntLit(2), IntLit(3)>>),
                        Infix(IntLit(1), "+", IntLit(1)))),
               ExpInt(3),
               <<1, 2, 3, 1, 1>>,
               Make(OpConstant, <<0>>) \o Make(OpConstant, <<1>>)
                 \o Make(OpConstant, <<2>>) \o Make(OpArray, <<3>>)
                 \o Make(OpConstant, <<3>>) \o Make(OpConstant, <<4>>)
                 \o Make(OpAdd, <<>>) \o Make(OpIndex, <<>>) \o Make(OpPop, <<>>)),
  ExpConstants(P1(Index(HashLit(<<<<IntLit(1), IntLit(2)>>>>),
                        Infix(IntLit(2), "-", IntLit(1)))),
               ExpInt(2),
               <<1, 2, 2, 1>>,
               Make(OpConstant, <<0>>) \o Make(OpConstant, <<1>>)
                 \o Make(OpHash, <<2>>)
                 \o Make(OpConstant, <<2>>) \o Make(OpConstant, <<3>>)
                 \o Make(OpSub, <<>>) \o Make(OpIndex, <<>>) \o Make(OpPop, <<>>)),
  ExpConstants(P1(Infix(IntLit(1), "+", IntLit(2))),
               ExpInt(3),
               <<1, 2>>,
               Make(OpConstant, <<0>>) \o Make(OpConstant, <<1>>)
                 \o Make(OpAdd, <<>>) \o Make(OpPop, <<>>)),
  ExpConstants(P1(Infix(IntLit(1), "+", IntLit(1))),
               ExpInt(2),
               <<1, 1>>,
               Make(OpConstant, <<0>>) \o Make(OpConstant, <<1>>)
                 \o Make(OpAdd, <<>>) \o Make(OpPop, <<>>)),
  ExpConstants(Program(<<One, One, LetStmt("a", IntLit(1)), One>>),
               ExpInt(1),
               <<1, 1, 1, 1>>,
               Make(OpConstant, <<0>>) \o Make(OpPop, <<>>)
                 \o Make(OpConstant, <<1>>) \o Make(OpPop, <<>>)
                 \o Make(OpConstant, <<2>>) \o Make(OpSetGlobal, <<0>>)
                 \o Make(OpConstant, <<3>>) \o Make(OpPop, <<>>)),
  ExpConstants(P1(Infix(StrLit(Sa), "+", StrLit(Sa))),
               ExpStr(Sa \o Sa),
               <<Sa, Sa>>,
               Make(OpConstant, <<0>>) \o Make(OpConstant, <<1>>)
                 \o Make(OpAdd, <<>>) \o Make(OpPop, <<>>)),
  ExpConstants(Program(<<ExprStmt(Fn(<<>>, <<One>>)), ExprStmt(Fn(<<>>, <<One>>))>>),
               ExpClosure,
               <<1, Make(OpConstant, <<0>>) \o Make(OpReturnValue, <<>>),
                 1, Make(OpConstant, <<2>>) \o Make(OpReturnValue, <<>>)>>,
               Make(OpClosure, <<1, 0>>) \o Make(OpPop, <<>>)
                 \o Make(OpClosure, <<3, 0>>) \o Make(OpPop, <<>>))
>>

\* a == b and a != b: for a and b among true, false and null (the value of
\* an if without alternative whose condition is false), and among Ints
Singletons == <<BoolLit(TRUE), BoolLit(FALSE), IfNull>>
EqualOps == <<"==", "!=">>
SingletonPrograms ==
  [k \in 1 .. 18 |->
     LET i == 1 + ((k - 1) \div 6)
         j == 1 + (((k - 1) \div 2) % 3)
         o == 1 + ((k - 1) % 2)
     IN EntryP("equal", P1(Infix(Singletons[i], EqualOps[o], Singletons[j])),
               ExpBool((i = j) = (o = 1)), <<"singletons", i, j, o>>)]
IntegerPrograms ==
  [k \in 1 .. 2 * NInts * NInts |->
     LET a == PairA((k - 1) \div 2)
         b == PairB((k - 1) \div 2)
         o == 1 + ((k - 1) % 2)
     IN EntryP("equal", P1(Infix(Lit(a), EqualOps[o], Lit(b))),
               ExpBool((a = b) = (o = 1)), <<"integers", a, b, o>>)]
EqualFamily == SingletonPrograms \o IntegerPrograms

\* if expressions with the instructions expected of them (TestConditionals),
\* and if expressions in and around other if expressions and functions
Ten == ExprStmt(IntLit(10))
Conditional(ast, expected, code) == EntryP("conditionals", ast, expected, code)
ConditionalPrograms == <<
  \* if (true) { 10 }; 3333;
  Conditional(Program(<<ExprStmt(IfExpr(BoolLit(TRUE), Block(<<Ten>>), NoNode)),
                        ExprStmt(IntLit(3333))>>),
              ExpInt(3333),
              <<Make(OpTrue, <<>>) \o Make(OpJumpNotTruthy, <<10>>)
                  \o Make(OpConstant, <<0>>) \o Make(OpJump, <<11>>)
                  \o Make(OpNull, <<>>) \o Make(OpPop, <<>>)
                  \o Make(OpConstant, <<1>>) \o Make(OpPop, <<>>)>>),
  \* if (true) { 10 } else { 20 }; 3333;
  Conditional(Program(<<ExprStmt(IfExpr(BoolLit(TRUE), Block(<<Ten>>),
                                        Block(<<ExprStmt(IntLit(20))>>))),
                        ExprStmt(IntLit(3333))>>),
              ExpInt(3333),
              <<Make(OpTrue, <<>>) \o Make(OpJumpNotTruthy, <<10>>)
                  \o Make(OpConstant, <<0>>) \o Make(OpJump, <<13>>)
                  \o Make(OpConstant, <<1>>) \o Make(OpPop, <<>>)
                  \o Make(OpConstant, <<2>>) \o Make(OpPop, <<>>)>>),
  \* if (true) { if (false) { 10 } }
  Conditional(P1(IfExpr(BoolLit(TRUE),
                        Block(<<ExprStmt(IfExpr(BoolLit(FALSE), Block(<<Ten>>), NoNode))>>),
                        NoNode)),
              ExpNull, <<>>),
  \* if (false) { 10 } else { if (true) { 2 } else { 3 } }
  Conditional(P1(IfExpr(BoolLit(FALSE), Block(<<Ten>>),
                        Block(<<ExprStmt(IfExpr(BoolLit(TRUE),
                                                Block(<<ExprStmt(IntLit(2))>>),
                                                Block(<<ExprStmt(IntLit(3))>>)))>>))),
              ExpInt(2), <<>>),
  \* if (if (true) { false } else { true }) { 10 } else { 20 }
  Conditional(P1(IfExpr(IfExpr(BoolLit(TRUE), Block(<<ExprStmt(BoolLit(FALSE))>>),
                               Block(<<ExprStmt(BoolLit(TRUE))>>)),
                        Block(<<Ten>>), Block(<<ExprStmt(IntLit(20))>>))),
              ExpInt(20), <<>>),
  \* function(a) { if (a) { return 1; }; 2 }(true)
  Conditional(P1(Call(Fn(<<"a">>, <<ExprStmt(IfExpr(Ident("a"),
                                                    Block(<<RetStmt(IntLit(1))>>), NoNode)),
                                    ExprStmt(IntLit(2))>>),
                      <<BoolLit(TRUE)>>)),
              ExpInt(1), <<>>),
  \* function(a) { if (a) { return 1; }; 2 }(false)
  Conditional(P1(Call(Fn(<<"a">>, <<ExprStmt(IfExpr(Ident("a"),
                                                    Block(<<RetStmt(IntLit(1))>>), NoNode)),
                                    ExprStmt(IntLit(2))>>),
                      <<BoolLit(FALSE)>>)),
              ExpInt(2), <<>>),
  \* function(a) { if (a) { 1; 10 } else { let b = 20; b } }(false)
  Conditional(P1(Call(Fn(<<"a">>, <<ExprStmt(IfExpr(Ident("a"), Block(<<One, Ten>>),
                                      Block(<<LetStmt("b", IntLit(20)),
                                              ExprStmt(Ident("b"))>>)))>>),
                      <<BoolLit(FALSE)>>)),
              ExpInt(20), <<>>),
  \* let a = if (false) { 10 } else { 20 }; a + 1
  Conditional(Program(<<LetStmt("a", IfExpr(BoolLit(FALSE), Block(<<Ten>>),
                                            Block(<<ExprStmt(IntLit(20))>>))),
                        ExprStmt(Infix(Ident("a"), "+", IntLit(1)))>>),
              ExpInt(21), <<>>)
>>


\* TestClosure: a function c nested in b nested in a, with a global g
\*   let g = 1000;
\*   function(a) { function(b) { function(c) { <sum> } } }(1)(10)(100)
\* where <sum> adds up to MaxUses of the names g, a, b and c
MaxUses == 3
ClosureNames == <<"g", "a", "b", "c">>
\* the j-th sequence (j from 0) of len positions of ClosureNames
Uses(len, j) == [i \in 1 .. len |-> ((j \div Power(4, i - 1)) % 4) + 1]
RECURSIVE SumOfNames(_)
SumOfNames(uses) ==
  IF Len(uses) = 1 THEN Ident(ClosureNames[uses[1]])
  ELSE Infix(SumOfNames(SubSeq(uses, 1, Len(uses) - 1)), "+",
             Ident(ClosureNames[uses[Len(uses)]]))
RECURSIVE ValueOfNames(_)
ValueOfNames(uses) ==
  IF uses = <<>> THEN 0
  ELSE (IF Head(uses) = 1 THEN 1000 ELSE Power(10, Head(uses) - 2))
         + ValueOfNames(Tail(uses))
Nested(uses) ==
  Program(<<LetStmt("g", IntLit(1000)),
            ExprStmt(Call(Call(Call(
              Fn(<<"a">>,
                 <<ExprStmt(Fn(<<"b">>,
                               <<ExprStmt(Fn(<<"c">>,
                                             <<ExprStmt(SumOfNames(uses))>>))>>))>>),
              <<IntLit(1)>>), <<IntLit(10)>>), <<IntLit(100)>>))>>)
RECURSIVE ClosureFamilyOf(_)
ClosureFamilyOf(len) ==
  IF len = 0 THEN <<>>
  ELSE ClosureFamilyOf(len - 1)
         \o [k \in 1 .. Power(4, len) |->
               EntryP("closure", Nested(Uses(len, k - 1)),
                      ExpInt(ValueOfNames(Uses(len, k - 1))), Uses(len, k - 1))]
ClosureFamily == ClosureFamilyOf(MaxUses)


\* TestHashLiterals, and literals whose keys are not written in the order of
\* their texts
HashLiteralPrograms == <<
  \* {}
  Entry("hash", P1(HashLit(<<>>)), ExpHash),
  \* {1: 2, 3: 4, 5: 6}
  Entry("hash", P1(HashLit(<<<<IntLit(1), IntLit(2)>>, <<IntLit(3), IntLit(4)>>,
                             <<IntLit(5), IntLit(6)>>>>)), ExpHash),
  \* {1: 2 + 3, 4: 5 * 6}
  Entry("hash", P1(HashLit(<<<<IntLit(1), Infix(IntLit(2), "+", IntLit(3))>>,
                             <<IntLit(4), Infix(IntLit(5), "*", IntLit(6))>>>>)),
        ExpHash),
  \* {2: true, 10: false}
  Entry("hash", P1(HashLit(<<<<IntLit(2), BoolLit(TRUE)>>,
                             <<IntLit(10), BoolLit(FALSE)>>>>)), ExpHash),
  \* {3: 1, 2: true, 1: "a"}
  Entry("hash", P1(HashLit(<<<<IntLit(3), IntLit(1)>>, <<IntLit(2), BoolLit(TRUE)>>,
                             <<IntLit(1), StrLit(Sa)>>>>)), ExpHash)
>>


\* !v and !!v for a value v of every type
BangOperands ==
  <<BoolLit(TRUE), BoolLit(FALSE), IfNull, IntLit(0), IntLit(5), StrLit(Sa),
    StrLit(<<>>), ArrLit(<<>>), HashLit(<<>>), Fn(<<>>, <<>>)>>
BangFamily ==
  [k \in 1 .. 2 * Len(BangOperands) |->
     LET i == (k + 1) \div 2
         twice == k % 2 = 0
         not == Prefix("!", BangOperands[i])
     IN EntryP("bang", P1(IF twice THEN Prefix("!", not) ELSE not),
               ExpBool((i \notin {2, 3}) = twice), <<i, IF twice THEN 2 ELSE 1>>)]


\* comparisons of Strings and Arrays: of two literals, and of one object
\* with itself
StringsEqual(l, op, r, expected) ==
  EntryP("strings", P1(Infix(l, op, r)), ExpBool(expected), <<"literals", op>>)
SelfEqual(value, op, expected) ==
  EntryP("strings", Program(<<LetStmt("s", value),
                              ExprStmt(Infix(Ident("s"), op, Ident("s")))>>),
         ExpBool(expected), <<"self", op>>)
StringPrograms == <<
  \* "a" == "a", "a" != "a", "a" == "b", "a" != "b"
  StringsEqual(StrLit(Sa), "==", StrLit(Sa), FALSE),
  StringsEqual(StrLit(Sa), "!=", StrLit(Sa), TRUE),
  StringsEqual(StrLit(Sa), "==", StrLit(Sb), FALSE),
  StringsEqual(StrLit(Sa), "!=", StrLit(Sb), TRUE),
  \* "a" + "b" == "a" + "b"
  StringsEqual(Infix(StrLit(Sa), "+", StrLit(Sb)), "==",
               Infix(StrLit(Sa), "+", StrLit(Sb)), FALSE),
  \* [1] == [1], {} != {}
  StringsEqual(ArrLit(<<IntLit(1)>>), "==", ArrLit(<<IntLit(1)>>), FALSE),
  StringsEqual(HashLit(<<>>), "!=", HashLit(<<>>), TRUE),
  \* let s = "a"; s == s    let s = "a"; s != s
  SelfEqual(StrLit(Sa), "==", TRUE),
  SelfEqual(StrLit(Sa), "!=", FALSE),
  \* let s = [1]; s == s    let s = function() { }; s != s
  SelfEqual(ArrLit(<<IntLit(1)>>), "==", TRUE),
  SelfEqual(Fn(<<>>, <<>>), "!=", FALSE),
  \* let s = "a"; let t = s; s == t
  EntryP("strings", Program(<<LetStmt("s", StrLit(Sa)), LetStmt("t", Ident("s")),
                              ExprStmt(Infix(Ident("s"), "==", Ident("t")))>>),
         ExpBool(TRUE), <<"self", "==">>)
>>


\* TestIntegerArithmetic: l + r, l - r, l * r and l / r for the Integers of
\* Ints (no division by 0), and chains of operators
Abs(n) == IF n < 0 THEN -n ELSE n
\* the quotient of l by r truncated toward zero
Truncated(l, r) ==
  CHOOSE q \in -Abs(l) .. Abs(l) :
    /\ Abs(q) * Abs(r) <= Abs(l)
    /\ Abs(l) - Abs(q) * Abs(r) < Abs(r)
    /\ q # 0 => ((q > 0) = ((l > 0) = (r > 0)))
ArithOps == <<"+", "-", "*", "/">>
Arith(l, o, r) ==
  CASE o = 1 -> l + r [] o = 2 -> l - r [] o = 3 -> l * r [] o = 4 -> Truncated(l, r)
ArithCases ==
  SelectSeq([k \in 1 .. 4 * NInts * NInts |->
               <<PairA((k - 1) \div 4), 1 + ((k - 1) % 4), PairB((k - 1) \div 4)>>],
            LAMBDA t : ~(t[2] = 4 /\ t[3] = 0))
ArithPrograms ==
  [k \in 1 .. Len(ArithCases) |->
     LET l == ArithCases[k][1]
         o == ArithCases[k][2]
         r == ArithCases[k][3]
     IN EntryP("arith", P1(Infix(Lit(l), ArithOps[o], Lit(r))),
               ExpInt(Arith(l, o, r)), <<l, o, r>>)]
ChainPrograms == <<
  \* 50 / 2 * 2 + 10 - 5
  EntryP("arith",
         P1(Infix(Infix(Infix(Infix(IntLit(50), "/", IntLit(2)), "*", IntLit(2)),
                        "+", IntLit(10)), "-", IntLit(5))),
         ExpInt(55), <<>>),
  \* 7 / 2 - 7 / -2
  EntryP("arith",
         P1(Infix(Infix(IntLit(7), "/", IntLit(2)), "-",
                  Infix(IntLit(7), "/", Lit(-2)))),
         ExpInt(6), <<>>),
  \* -(5 - 7) * 3
  EntryP("arith",
         P1(Infix(Prefix("-", Infix(IntLit(5), "-", IntLit(7))), "*", IntLit(3))),
         ExpInt(6), <<>>)
>>
ArithFamily == ArithPrograms \o ChainPrograms


\* operations on operands of the wrong types: every pair of operand types
\* that is neither two Integers nor two Strings under +, -, * and /, every
\* non-Integer under -, and every pair of non-Integers under > and <
TypeOperands ==
  <<IntLit(5), StrLit(Sa), BoolLit(TRUE), IfNull, ArrLit(<<>>), HashLit(<<>>),
    Fn(<<>>, <<>>)>>
TypeOfOperand ==
  <<IntegerObj, StringObj, BooleanObj, NullObj, ArrayObj, HashObj, ClosureObj>>
NTypes == Len(TypeOperands)
UnsupportedCases ==
  SelectSeq([k \in 1 .. 4 * NTypes * NTypes |->
               <<1 + (((k - 1) \div 4) \div NTypes), 1 + ((k - 1) % 4),
                 1 + (((k - 1) \div 4) % NTypes)>>],
            LAMBDA t : ~(t[1] = t[3] /\ t[1] \in {1, 2}))
UnsupportedPrograms ==
  [k \in 1 .. Len(UnsupportedCases) |->
     LET i == UnsupportedCases[k][1]
         o == UnsupportedCases[k][2]
         j == UnsupportedCases[k][3]
     IN [family |-> "types",
         ast |-> P1(Infix(TypeOperands[i], ArithOps[o], TypeOperands[j])),
         expected |-> [type |-> "error",
                       err |-> <<"unsupported types for binary operation: ",
                                 TypeOfOperand[i], " ", TypeOfOperand[j]>>],
         p |-> <<i, o, j>>]]
NegationPrograms ==
  [k \in 1 .. NTypes - 1 |->
     [family |-> "types",
      ast |-> P1(Prefix("-", TypeOperands[k + 1])),
      expected |-> [type |-> "error",
                    err |-> <<"unsupported type for negation: ", TypeOfOperand[k + 1]>>],
      p |-> <<k + 1>>]]
\* l > r, and l < r, which compares r > l
GreaterPrograms ==
  [k \in 1 .. 2 * (NTypes - 1) * (NTypes - 1) |->
     LET i == 2 + (((k - 1) \div 2) \div (NTypes - 1))
         j == 2 + (((k - 1) \div 2) % (NTypes - 1))
         less == k % 2 = 0
     IN [family |-> "types",
         ast |-> P1(Infix(TypeOperands[i], IF less THEN "<" ELSE ">", TypeOperands[j])),
         expected |-> [type |-> "error",
                       err |-> IF less
                               THEN <<"unknown operator: ", OpGreaterThan, " ",
                                      TypeOfOperand[j], " ", TypeOfOperand[i]>>
                               ELSE <<"unknown operator: ", OpGreaterThan, " ",
                                      TypeOfOperand[i], " ", TypeOfOperand[j]>>],
         p |-> <<i, j>>]]
TypeFamily == UnsupportedPrograms \o NegationPrograms \o GreaterPrograms


\* TestStringExpressions: l + r, l - r, l * r and l / r for Strings l and r,
\* and programs that read an operand again after the concatenation
Strs == <<<<>>, Sa, Sb, Sa \o Sb>>
ArithOpcodes == <<OpAdd, OpSub, OpMul, OpDiv>>
StringOperations ==
  [k \in 1 .. 4 * Len(Strs) * Len(Strs) |->
     LET l == Strs[1 + (((k - 1) \div 4) \div Len(Strs))]
         o == 1 + ((k - 1) % 4)
         r == Strs[1 + (((k - 1) \div 4) % Len(Strs))]
     IN [family |-> "concat",
         ast |-> P1(Infix(StrLit(l), ArithOps[o], StrLit(r))),
         expected |-> IF o = 1 THEN ExpStr(l \o r)
                      ELSE [type |-> "error",
                            err |-> <<"unknown string operator: ", ArithOpcodes[o]>>],
         p |-> <<k>>]]
ConcatPrograms == <<
  \* "mon" + "key" + "banana"
  EntryP("concat",
         P1(Infix(Infix(StrLit(Smon), "+", StrLit(Skey)), "+", StrLit(Sbanana))),
         ExpStr(Smon \o Skey \o Sbanana), <<>>),
  \* let s = "a"; let t = s + "b"; s
  EntryP("concat",
         Program(<<LetStmt("s", StrLit(Sa)),
                   LetStmt("t", Infix(Ident("s"), "+", StrLit(Sb))),
                   ExprStmt(Ident("s"))>>),
         ExpStr(Sa), <<>>),
  \* let s = "a"; let t = "b" + s; s + t
  EntryP("concat",
         Program(<<LetStmt("s", StrLit(Sa)),
                   LetStmt("t", Infix(StrLit(Sb), "+", Ident("s"))),
                   ExprStmt(Infix(Ident("s"), "+", Ident("t")))>>),
         ExpStr(Sa \o Sb \o Sa), <<>>),
  \* let s = "a"; s + s + s
  EntryP("concat",
         Program(<<LetStmt("s", StrLit(Sa)),
                   ExprStmt(Infix(Infix(Ident("s"), "+", Ident("s")), "+", Ident("s")))>>),
         ExpStr(Sa \o Sa \o Sa), <<>>)
>>
ConcatFamily == StringOperations \o ConcatPrograms

\* programs whose execution fails: with the error Run returns
ErrExp(e) == [type |-> "error", err |-> e]
InFn(e) == P1(Call(Fn(<<>>, <<ExprStmt(e)>>), <<>>))
ErrorPrograms == <<
  Entry("error", P1(Infix(IntLit(1), "+", BoolLit(TRUE))),
        ErrExp(<<"unsupported types for binary operation: ", IntegerObj, " ", BooleanObj>>)),
  Entry("error", P1(Infix(StrLit(Smon), "-", StrLit(Skey))),
        ErrExp(<<"unknown string operator: ", OpSub>>)),
  Entry("error", P1(Prefix("-", BoolLit(TRUE))),
        ErrExp(<<"unsupported type for negation: ", BooleanObj>>)),
  Entry("error", P1(Infix(BoolLit(TRUE), ">", BoolLit(FALSE))),
        ErrExp(<<"unknown operator: ", OpGreaterThan, " ", BooleanObj, " ", BooleanObj>>)),
  Entry("error", P1(Index(IntLit(1), IntLit(0))),
        ErrExp(<<"index operator not supported: ", IntegerObj>>)),
  Entry("error", P1(HashLit(<<<<ArrLit(<<>>), IntLit(2)>>>>)),
        ErrExp(<<"unusable as hash key: ", ArrayObj>>)),
  Entry("error", P1(Index(HashLit(<<<<IntLit(1), IntLit(2)>>>>), ArrLit(<<>>))),
        ErrExp(<<"unusable as hash key: ", ArrayObj>>)),
  Entry("error", P1(Call(IntLit(5), <<>>)),
        ErrExp(<<"calling non-function and non-built-in">>)),
  Entry("error", InFn(Infix(IntLit(1), "+", BoolLit(TRUE))),
        ErrExp(<<"unsupported types for binary operation: ", IntegerObj, " ", BooleanObj>>)),
  Entry("error", InFn(Prefix("-", StrLit(Smon))),
        ErrExp(<<"unsupported type for negation: ", StringObj>>)),
  Entry("error",
        Program(<<LetStmt("g", IntLit(3)),
                  ExprStmt(IntLit(4)),
                  ExprStmt(Call(Fn(<<"a">>, <<ExprStmt(Call(Ident("a"), <<Ident("g")>>))>>),
                                <<Fn(<<>>, <<ExprStmt(IntLit(1))>>)>>)),
                  ExprStmt(IntLit(5))>>),
        ErrExp(<<"wrong number of arguments: want=", 0, ", got=", 1>>))
>>

\* straight-line programs whose operands are integer literals
OrderPrograms == <<
  Entry("order", P1(Infix(IntLit(1), "+", IntLit(2))), ExpInt(3)),
  Entry("order", P1(Infix(IntLit(4), "-", IntLit(3))), ExpInt(1)),
  Entry("order", P1(Infix(IntLit(2), "*", IntLit(3))), ExpInt(6)),
  Entry("order", P1(Infix(IntLit(7), "/", IntLit(2))), ExpInt(3)),
  Entry("order", P1(Infix(IntLit(1), ">", IntLit(2))), ExpBool(FALSE)),
  Entry("order", P1(Infix(IntLit(1), "==", IntLit(2))), ExpBool(FALSE)),
  Entry("order", P1(Infix(IntLit(1), "!=", IntLit(2))), ExpBool(TRUE)),
  Entry("order", P1(Infix(Infix(IntLit(1), "+", IntLit(2)), "*",
                          Infix(IntLit(3), "-", IntLit(4)))), ExpInt(-3)),
  Entry("order", P1(ArrLit(<<IntLit(3), IntLit(1), IntLit(2)>>)), ExpInts(<<3, 1, 2>>)),
  Entry("order", P1(Index(ArrLit(<<IntLit(5), IntLit(6)>>), IntLit(1))), ExpInt(6)),
  Entry("order", P1(Call(Index(ArrLit(<<Fn(<<"a", "b">>, <<ExprStmt(Ident("b"))>>)>>),
                               IntLit(0)),
                         <<IntLit(8), IntLit(9)>>)), ExpInt(9)),
  Entry("order", P1(Index(HashLit(<<<<IntLit(2), IntLit(20)>>, <<IntLit(10), IntLit(30)>>,
                                    <<IntLit(1), IntLit(40)>>>>), IntLit(10))), ExpInt(30)),
  Entry("order", P1(Infix(IntLit(1), "<", IntLit(2))), ExpBool(TRUE)),
  Entry("order", P1(Infix(Infix(IntLit(1), "+", IntLit(2)), "<",
                          Infix(IntLit(3), "*", IntLit(4)))), ExpBool(TRUE)),
  Entry("order", P1(Index(ArrLit(<<Infix(IntLit(1), "<", IntLit(2)), IntLit(3)>>),
                          IntLit(0))), ExpBool(TRUE)),
  Entry("order", P1(Index(HashLit(<<<<Infix(IntLit(2), "<", IntLit(3)), IntLit(5)>>,
                                    <<Infix(IntLit(1), "+", IntLit(1)), IntLit(6)>>>>),
                          IntLit(2))), ExpInt(6))
>>

Programs ==
  TestPrograms \o LtFamily \o LtExprFamily \o IfFamily \o ArityFamily
    \o AdderFamily \o FibFamily \o BeforeFamily \o ErrorPrograms \o OrderPrograms
    \o LetLastFamily \o FreeFamily \o FnFamily \o IndexFamily \o HashIndexPrograms
    \o SameTextPrograms \o IdentifierPrograms \o ConstantPrograms \o EqualFamily
    \o ConditionalPrograms \o ClosureFamily \o HashLiteralPrograms \o BangFamily
    \o StringPrograms \o ArithFamily \o TypeFamily
    \o ConcatFamily

\* programs that recurse until a fixed size of the VM is reached.  A frame of
\* Reserving(first) takes eight stack slots: the callee and seven locals.
LocalNames == <<"l1", "l2", "l3", "l4", "l5", "l6", "l7">>
Locals ==
  [i \in 1 .. Len(LocalNames) |-> LetStmt(LocalNames[i], IntLit(i))]
Reserving(first, n) ==
  Program(<<LetStmt("f", Fn(<<>>, <<ExprStmt(first), ExprStmt(Call(Ident("f"), <<>>))>>
                                   \o SubSeq(Locals, 1, n))),
            ExprStmt(Call(Ident("f"), <<>>))>>)
\* let f = function() { let a = a; f() }; [1, f()]
ReadingLocal ==
  Program(<<LetStmt("f", Fn(<<>>, <<LetStmt("a", Ident("a")),
                                    ExprStmt(Call(Ident("f"), <<>>))>>)),
            ExprStmt(ArrLit(<<IntLit(1), Call(Ident("f"), <<>>)>>))>>)
\* the same with a parameter, which takes a ninth slot
ReservingParam ==
  Program(<<LetStmt("f", Fn(<<"a">>, <<ExprStmt(Ident("a")),
                                       ExprStmt(Call(Ident("f"), <<Ident("a")>>))>>
                                      \o Locals)),
            ExprStmt(Call(Ident("f"), <<IntLit(1)>>))>>)
\* let down = function(n) { if (n == 0) { 0 } else { down(n - 1) } }; down(depth)
DownDepth == 300
Down ==
  Program(<<LetStmt("down", Fn(<<"n">>,
              <<ExprStmt(IfExpr(Infix(Ident("n"), "==", IntLit(0)),
                                Block(<<ExprStmt(IntLit(0))>>),
                                Block(<<ExprStmt(Call(Ident("down"),
                                          <<Infix(Ident("n"), "-", IntLit(1))>>))>>)))>>)),
            ExprStmt(Call(Ident("down"), <<IntLit(DownDepth)>>))>>)

StackOverflow == ErrExp(<<"stack overflow">>)
DeepPrograms == <<
  \* let f = function() { f() }; f();
  Entry("frames", Program(<<LetStmt("f", Fn(<<>>, <<ExprStmt(Call(Ident("f"), <<>>))>>)),
                            ExprStmt(Call(Ident("f"), <<>>))>>), ExpNone),
  Entry("stack", ReservingParam, StackOverflow),
  Entry("stack", Reserving(IntLit(1), 7), StackOverflow),
  Entry("stack", Reserving(IntLit(1), 2), StackOverflow),
  Entry("stack", Reserving(BoolLit(TRUE), 7), StackOverflow),
  Entry("stack", Reserving(BoolLit(TRUE), 2), StackOverflow),
  Entry("stack", Reserving(BoolLit(FALSE), 7), StackOverflow),
  Entry("stack", Reserving(BoolLit(FALSE), 2), StackOverflow),
  Entry("stack", Reserving(Ident("f"), 7), StackOverflow),
  Entry("stack", Reserving(Ident("f"), 2), StackOverflow),
  Entry("stack", Reserving(Fn(<<>>, <<>>), 7), StackOverflow),
  Entry("stack", Reserving(Fn(<<>>, <<>>), 2), StackOverflow),
  Entry("stack", Reserving(ArrLit(<<>>), 7), StackOverflow),
  Entry("stack", Reserving(ArrLit(<<>>), 2), StackOverflow),
  Entry("stack", Reserving(HashLit(<<>>), 7), StackOverflow),
  Entry("stack", Reserving(HashLit(<<>>), 2), StackOverflow),
  Entry("down", Down, ExpInt(0)),
  Entry("local", ReadingLocal, ExpNone),
  EntryP("fib", Program(<<Fibonacci, ExprStmt(Call(Ident("fibonacci"), <<IntLit(15)>>))>>),
         ExpInt(610), <<15>>)
>>

\* programs that the tests do not cover: if expressions with an empty block
\* or a block that ends in a let statement, return statements outside any
\* function, and comparisons of an Integer with a Boolean
EmptyIf == IfExpr(BoolLit(TRUE), Block(<<>>), NoNode)
Five == ExprStmt(IntLit(5))
Uncovered(ast, p) == EntryP("uncovered", ast, ExpNone, p)
UncoveredPrograms == <<
  \* [7, function() { if (true) {}; if (true) {}; 5 }()]
  Uncovered(P1(ArrLit(<<IntLit(7),
                        Call(Fn(<<>>, <<ExprStmt(EmptyIf), ExprStmt(EmptyIf), Five>>),
                             <<>>)>>)),
            <<"call">>),
  \* [7, function() { if (true) {}; 5 }()]
  Uncovered(P1(ArrLit(<<IntLit(7),
                        Call(Fn(<<>>, <<ExprStmt(EmptyIf), Five>>), <<>>)>>)),
            <<"call">>),
  \* function(a) { if (true) {}; 5; a }(7)
  Uncovered(P1(Call(Fn(<<"a">>, <<ExprStmt(EmptyIf), Five, ExprStmt(Ident("a"))>>),
                    <<IntLit(7)>>)),
            <<"locals">>),
  \* function(a) { let b = 2; if (true) {}; if (true) {}; 5; a + b }(7)
  Uncovered(P1(Call(Fn(<<"a">>, <<LetStmt("b", IntLit(2)), ExprStmt(EmptyIf),
                                  ExprStmt(EmptyIf), Five,
                                  ExprStmt(Infix(Ident("a"), "+", Ident("b")))>>),
                    <<IntLit(7)>>)),
            <<"locals">>),
  \* return 5;
  Uncovered(Program(<<RetStmt(IntLit(5))>>), <<"return">>),
  \* 1; return 2; 3
  Uncovered(Program(<<One, RetStmt(IntLit(2)), ExprStmt(IntLit(3))>>), <<"return">>),
  \* if (true) { return 5; }
  Uncovered(P1(IfExpr(BoolLit(TRUE), Block(<<RetStmt(IntLit(5))>>), NoNode)),
            <<"return">>),
  \* if (true) {}
  Uncovered(P1(EmptyIf), <<"if">>),
  \* 1; if (true) {}; 2
  Uncovered(Program(<<One, ExprStmt(EmptyIf), ExprStmt(IntLit(2))>>), <<"if">>),
  \* if (true) { let a = 1; }
  Uncovered(P1(IfExpr(BoolLit(TRUE), Block(<<LetStmt("a", IntLit(1))>>), NoNode)),
            <<"if">>),
  \* if (false) { 1 } else {}
  Uncovered(P1(IfExpr(BoolLit(FALSE), Block(<<One>>), Block(<<>>))), <<"if">>),
  \* if (false) { 1 } else { let a = 1; }
  Uncovered(P1(IfExpr(BoolLit(FALSE), Block(<<One>>),
                      Block(<<LetStmt("a", IntLit(1))>>))), <<"if">>),
  \* let a = if (true) {};
  Uncovered(Program(<<LetStmt("a", EmptyIf)>>), <<"if">>),
  \* if (true) { 1 } else { 2 }
  Uncovered(P1(IfExpr(BoolLit(TRUE), Block(<<One>>), Block(<<ExprStmt(IntLit(2))>>))),
            <<"if">>),
  \* 1 == true
  Uncovered(P1(Infix(IntLit(1), "==", BoolLit(TRUE))), <<"mixed">>),
  \* true != 1
  Uncovered(P1(Infix(BoolLit(TRUE), "!=", IntLit(1))), <<"mixed">>),
  \* 1 > true
  Uncovered(P1(Infix(IntLit(1), ">", BoolLit(TRUE))), <<"mixed">>),
  \* true < 1
  Uncovered(P1(Infix(BoolLit(TRUE), "<", IntLit(1))), <<"mixed">>),
  \* let a = a; a + 1
  Uncovered(Program(<<LetStmt("a", Ident("a")),
                      ExprStmt(Infix(Ident("a"), "+", IntLit(1)))>>), <<"unset">>),
  \* if (false) { let a = 1; 1 }; a
  Uncovered(Program(<<ExprStmt(IfExpr(BoolLit(FALSE),
                                      Block(<<LetStmt("a", IntLit(1)), One>>), NoNode)),
                      ExprStmt(Ident("a"))>>), <<"unset">>),
  \* function() { let a = a; a }()
  Uncovered(P1(Call(Fn(<<>>, <<LetStmt("a", Ident("a")), ExprStmt(Ident("a"))>>),
                    <<>>)), <<"unset">>),
  \* function() { 1 }(); function() { let a = a; a }()
  Uncovered(Program(<<ExprStmt(Call(Fn(<<>>, <<One>>), <<>>)),
                      ExprStmt(Call(Fn(<<>>, <<LetStmt("a", Ident("a")),
                                               ExprStmt(Ident("a"))>>), <<>>))>>),
            <<"unset">>),
  \* 1 / 0
  Uncovered(P1(Infix(IntLit(1), "/", IntLit(0))), <<"zero">>),
  \* 0 / 0
  Uncovered(P1(Infix(IntLit(0), "/", IntLit(0))), <<"zero">>),
  \* let a = 2; function(b) { 7 / (a - b) }(2)
  Uncovered(Program(<<LetStmt("a", IntLit(2)),
                      ExprStmt(Call(Fn(<<"b">>,
                                       <<ExprStmt(Infix(IntLit(7), "/",
                                                        Infix(Ident("a"), "-",
                                                              Ident("b"))))>>),
                                    <<IntLit(2)>>))>>),
            <<"zero">>),
  \* 0 / 1
  Uncovered(P1(Infix(IntLit(0), "/", IntLit(1))), <<"zero">>)
>>

\* an array of n references to the global a followed by t literals true:
\* 3 * n + t + 3 bytes of instructions
Row(n, t) ==
  ArrLit([i \in 1 .. n + t |-> IF i <= n THEN Ident("a") ELSE BoolLit(TRUE)])
Rows2 == ArrLit([i \in 1 .. 16 |-> Row(16, 0)])
Rows3 == ArrLit([i \in 1 .. 16 |-> Rows2])

\* a program whose if-expression has a consequence of 65525 bytes, so that
\* the OpJump of the consequence ends at offset 65536:
\*   let a = true;
\*   if (false) { R3; R3; R3; R3; R2; (15 times) R1; (14 times) R0 }
\* where R1 is [a, (16 times)], R2 is [R1, (16 times)], R3 is
\* [R2, (16 times)] and R0 is [a, (16 times), true, (14 times)]
LongPrograms == <<
  EntryP("long",
         Program(<<LetStmt("a", BoolLit(TRUE)),
                   ExprStmt(IfExpr(BoolLit(FALSE),
                                   Block([i \in 1 .. 4 |-> ExprStmt(Rows3)]
                                           \o [i \in 1 .. 15 |-> ExprStmt(Rows2)]
                                           \o [i \in 1 .. 14 |-> ExprStmt(Row(16, 0))]
                                           \o <<ExprStmt(Row(16, 14))>>),
                                   NoNode))>>),
         ExpNone, <<>>)
>>

\* function(x) { body }(7), for each of the bodies
FramePrograms ==
  [k \in 1 .. Len(Bodies) |->
     Uncovered(P1(Call(Fn(<<"x">>, Bodies[k]), <<IntLit(7)>>)), <<"frame", k>>)]

AllPrograms ==
  Programs \o DeepPrograms \o UncoveredPrograms \o LongPrograms \o FramePrograms

(***************************************************************************)
(* The state: the program drawn (its index in Programs), the driver's     *)
(* position, the compiler, the VM, and the history of the integer         *)
(* constants OpConstant has pushed.                                        *)
(***************************************************************************)
VARIABLES pid, phase, stmt, comp, vm, trace, entered

vars == <<pid, phase, stmt, comp, vm, trace, entered>>

prog == AllPrograms[pid]
Statements == prog.ast.Statements

\* the VM before vm.New: of an empty program
NoVM == NewVM([Instructions |-> <<>>, Constants |-> <<>>], FirstId)

Init ==
  /\ pid \in 1 .. Len(Programs)
  /\ phase = "compile"
  /\ stmt = 1
  /\ comp \in {NewCompiler(tie) : tie \in BOOLEAN}
  /\ vm = NoVM
  /\ trace = <<>>
  /\ entered = <<>>

\* Compile(program): one iteration of its loop over the statements
CompileStatement ==
  /\ phase = "compile"
  /\ stmt <= Len(Statements)
  /\ comp' = Compile(comp, Statements[stmt])
  /\ phase' = IF CompileFailed(comp') THEN "compile failed" ELSE "compile"
  /\ stmt' = stmt + 1
  /\ UNCHANGED <<pid, vm, trace, entered>>

\* Compile has returned nil: vm := New(comp.Bytecode())
New ==
  /\ phase = "compile"
  /\ stmt > Len(Statements)
  /\ vm' = NewVM(Bytecode(comp), comp.heap)
  /\ phase' = "run"
  /\ UNCHANGED <<pid, stmt, comp, trace, entered>>

\* the integer constant an OpConstant about to execute pushes, if any
Pushed(v) ==
  IF NextOp(v) = OpConstant
  THEN LET o == v.constants[ReadUint16(Instructions(v, currentFrame(v)),
                                       currentFrame(v).ip + 2) + 1]
       IN IF o.type = IntegerObj THEN <<o.Value>> ELSE <<>>
  ELSE <<>>

\* a variant in which Run goes on after an error
AfterIgnoringError(v) == IF v.panic # NoPanic THEN "panicked" ELSE "run"

\* the phase after an iteration of Run
After(v) ==
  IF v.panic # NoPanic THEN "panicked"
  ELSE IF v.err # NoErr THEN "returned"
  ELSE "run"

\* one iteration of the loop of Run
RunStep ==
  /\ phase = "run"
  /\ RunCondition(vm)
  /\ vm' = RunIteration(vm)
  /\ phase' = After(vm')
  /\ trace' = trace \o Pushed(vm)
  /\ UNCHANGED <<pid, stmt, comp, entered>>

\* the loop condition of Run is false: return nil
RunReturn ==
  /\ phase = "run"
  /\ ~RunCondition(vm)
  /\ phase' = "returned"
  /\ UNCHANGED <<pid, stmt, comp, vm, trace, entered>>

Next == CompileStatement \/ New \/ RunStep \/ RunReturn

Spec == Init /\ [][Next]_vars

\* Run is about to end, or the stack or the frame stack is nearly full
Near(v) ==
  \/ ~RunCondition(v)
  \/ VMFailed(RunIteration(v))
  \/ v.sp >= StackSize - 16
  \/ v.framesIndex >= MaxFrames - 1
\* the VM and the history after up to 2^k further iterations of Run, stopping
\* when Near
RECURSIVE Iterations(_, _)
Iterations(s, k) ==
  IF Near(s.vm) THEN s
  ELSE IF k = 0
  THEN [vm |-> RunIteration(s.vm), trace |-> s.trace \o Pushed(s.vm)]
  ELSE LET w == Iterations(s, k - 1) IN
       IF Near(w.vm) THEN w ELSE Iterations(w, k - 1)
\* the loop of Run from its first iteration until Near, in one step
RunNear ==
  /\ phase = "run"
  /\ currentFrame(vm).ip = -1
  /\ vm.framesIndex = 1
  /\ trace = <<>>
  /\ ~Near(vm)
  /\ vm' = Iterations([vm |-> vm, trace |-> trace], 14).vm
  /\ trace' = Iterations([vm |-> vm, trace |-> trace], 14).trace
  /\ UNCHANGED <<pid, phase, stmt, comp, entered>>

\* the same machine on the programs that recurse deeply
InitDeep ==
  /\ pid \in Len(Programs) + 1 .. Len(Programs) + Len(DeepPrograms)
  /\ phase = "compile"
  /\ stmt = 1
  /\ comp = NewCompiler(FALSE)
  /\ vm = NoVM
  /\ trace = <<>>
  /\ entered = <<>>

NextDeep == Next \/ RunNear

SpecDeep == InitDeep /\ [][NextDeep]_vars

\* the same machine on the recursive fibonacci programs, fibonacci(15) included
InitFib ==
  /\ pid \in {i \in 1 .. Len(AllPrograms) : AllPrograms[i].family = "fib"}
  /\ phase = "compile"
  /\ stmt = 1
  /\ comp = NewCompiler(FALSE)
  /\ vm = NoVM
  /\ trace = <<>>
  /\ entered = <<>>

SpecFib == InitFib /\ [][Next]_vars


\* the number of call expressions that occur in a node
RECURSIVE Calls(_), CallsOf(_)
Calls(node) ==
  CASE node.kind = "CallExpression" ->
         1 + Calls(node.Function) + CallsOf(node.Arguments)
    [] node.kind = "FunctionLiteral" -> Calls(node.Body)
    [] node.kind \in {"Program", "BlockStatement"} -> CallsOf(node.Statements)
    [] node.kind = "ExpressionStatement" -> Calls(node.Expression)
    [] node.kind = "LetStatement" -> Calls(node.Value)
    [] node.kind = "ReturnStatement" -> Calls(node.ReturnValue)
    [] node.kind = "PrefixExpression" -> Calls(node.Right)
    [] node.kind = "InfixExpression" -> Calls(node.Left) + Calls(node.Right)
    [] node.kind = "IfExpression" ->
         Calls(node.Condition) + Calls(node.Consequence) + Calls(node.Alternative)
    [] node.kind = "IndexExpression" -> Calls(node.Left) + Calls(node.Index)
    [] node.kind = "ArrayLiteral" -> CallsOf(node.Elements)
    [] node.kind = "HashLiteral" ->
         CallsOf([i \in 1 .. Len(node.Pairs) |-> node.Pairs[i][1]])
           + CallsOf([i \in 1 .. Len(node.Pairs) |-> node.Pairs[i][2]])
    [] OTHER -> 0
CallsOf(nodes) ==
  IF nodes = <<>> THEN 0 ELSE Calls(Head(nodes)) + CallsOf(Tail(nodes))

\* the programs that contain no call expression
CallFree(i) == Calls(AllPrograms[i].ast) = 0

InitCallFree ==
  /\ pid \in {i \in 1 .. Len(AllPrograms) : CallFree(i)}
  /\ phase = "compile"
  /\ stmt = 1
  /\ comp = NewCompiler(FALSE)
  /\ vm = NoVM
  /\ trace = <<>>
  /\ entered = <<>>

SpecCallFree == InitCallFree /\ [][Next]_vars

\* the same machine on the programs the tests do not cover
InitUncovered ==
  /\ pid \in {i \in 1 .. Len(AllPrograms) : AllPrograms[i].family = "uncovered"}
  /\ phase = "compile"
  /\ stmt = 1
  /\ comp = NewCompiler(FALSE)
  /\ vm = NoVM
  /\ trace = <<>>
  /\ entered = <<>>

SpecUncovered == InitUncovered /\ [][Next]_vars

(***************************************************************************)
(* The scopes of the compiler, driven as TestCompilerScopes drives them:   *)
(* emit, enterScope and leaveScope in any order.  entered holds, for each  *)
(* scope entered and not yet left, the compiler as it was before           *)
(* enterScope and the instructions emitted in the scope since; trace is    *)
(* the stream the last leaveScope returned.                                *)
(***************************************************************************)
MaxEmits == 3
MaxScopes == 2
ScopeOps == {OpAdd, OpSub, OpMul}
ScopeParams == {<<>>, <<"a">>}

\* the bytes in the instruction streams of the scopes
RECURSIVE Emitted(_)
Emitted(scopes) ==
  IF scopes = <<>> THEN 0
  ELSE Len(Head(scopes).instructions) + Emitted(Tail(scopes))

InitScopes ==
  /\ pid = 1
  /\ phase = "scopes"
  /\ stmt = 1
  /\ comp \in {NewCompiler(FALSE),
               [NewCompiler(FALSE) EXCEPT !.symbolTable = Define(@, "g")]}
  /\ vm = NoVM
  /\ trace = <<>>
  /\ entered = <<>>

\* compiler.emit(op)
Emit ==
  /\ phase = "scopes"
  /\ Emitted(comp.scopes) < MaxEmits
  /\ \E op \in ScopeOps :
       /\ comp' = emit(comp, op, <<>>)
       /\ entered' = IF entered = <<>> THEN entered
                     ELSE [entered EXCEPT ![Len(entered)].emitted = @ \o Make(op, <<>>)]
  /\ trace' = <<>>
  /\ UNCHANGED <<pid, phase, stmt, vm>>

\* compiler.enterScope(), and the parameters a function literal defines next
EnterScope ==
  /\ phase = "scopes"
  /\ comp.scopeIndex < MaxScopes
  /\ \E params \in ScopeParams :
       comp' = [enterScope(comp) EXCEPT !.symbolTable = defineParameters(@, params)]
  /\ entered' = Append(entered, [before |-> comp, emitted |-> <<>>])
  /\ trace' = <<>>
  /\ UNCHANGED <<pid, phase, stmt, vm>>

\* compiler.leaveScope()
LeaveScope ==
  /\ phase = "scopes"
  /\ comp.scopeIndex > 0
  /\ comp' = leaveScope(comp)
  /\ trace' = currentInstructions(comp)
  /\ entered' = SubSeq(entered, 1, Len(entered) - 1)
  /\ UNCHANGED <<pid, phase, stmt, vm>>

NextScopes == Emit \/ EnterScope \/ LeaveScope

SpecScopes == InitScopes /\ [][NextScopes]_vars

(***************************************************************************)
(* Properties                                                              *)
(***************************************************************************)
\* Run has ended, one way or the other, or Compile has failed
Ended == phase \in {"returned", "panicked", "compile failed"}
\* Run has returned nil
ReturnedNil == phase = "returned" /\ vm.err = NoErr
LastStatement == Statements[Len(Statements)]

\* C1: when the last statement of a program is an expression statement and
\* Run returns no error, LastPoppedStackElem() is the value of that
\* expression, whatever statements precede it
C1_LastPoppedIsLastExpression ==
  (ReturnedNil /\ LastStatement.kind = "ExpressionStatement")
    => Matches(LastPoppedStackElem(vm), prog.expected)

C1_Witness ==
  /\ ReturnedNil
  /\ prog.family = "before"
  /\ prog.p[1] = MaxBefore
  /\ Matches(LastPoppedStackElem(vm), ExpInt(7 + MaxBefore))

\* the callee and the number of arguments of an OpCall about to execute
CallArgs(v) == ReadUint8(Instructions(v, currentFrame(v)), currentFrame(v).ip + 2)
Callee(v) == StackAt(v, v.sp - 1 - CallArgs(v))
\* the next iteration of Run calls a closure with a wrong number of arguments
WrongCall ==
  /\ phase = "run"
  /\ RunCondition(vm)
  /\ NextOp(vm) = OpCall
  /\ Callee(vm).type = ClosureObj
  /\ CallArgs(vm) # FunctionOf(vm, Callee(vm)).NumParameters

\* C2: OpCall N on a closure of P # N parameters makes Run return
\* "wrong number of arguments: want=P, got=N"; no frame is pushed for the
\* callee and none of its instructions is executed
C2_WrongNumberOfArguments ==
  [][WrongCall =>
       /\ vm'.err = <<"wrong number of arguments: want=",
                      FunctionOf(vm, Callee(vm)).NumParameters,
                      ", got=", CallArgs(vm)>>
       /\ phase' = "returned"
       /\ vm'.framesIndex = vm.framesIndex
       /\ Len(vm'.frames) = Len(vm.frames)
       /\ \A i \in 1 .. Len(vm.frames) :
            /\ vm'.frames[i].cl = vm.frames[i].cl
            /\ vm'.frames[i].basePointer = vm.frames[i].basePointer
       /\ vm'.sp = vm.sp
       /\ trace' = trace]_vars

C2_Witness ==
  /\ phase = "returned"
  /\ prog.family = "arity"
  /\ prog.p = <<MaxParams, 1>>
  /\ vm.err = <<"wrong number of arguments: want=", MaxParams, ", got=", 1>>
  /\ Len(vm.frames) = 1

\* C3: the closure newAdder(a, b) returns keeps the values a and b it captured
\* after the call that created it has returned and its stack slots have been
\* reused: called with c it yields a + b + c, other calls in between or not
AdderGlobal == GlobalAt(vm, 1)
C3_ClosureKeepsFreeValues ==
  prog.family = "adder" =>
    /\ Ended => ReturnedNil /\ Matches(LastPoppedStackElem(vm), ExpInt(prog.p[1] + prog.p[2] + prog.p[3]))
    /\ AdderGlobal.type = ClosureObj =>
         /\ Len(AdderGlobal.Free) = 2
         /\ Matches(AdderGlobal.Free[1], ExpInt(prog.p[1]))
         /\ Matches(AdderGlobal.Free[2], ExpInt(prog.p[2]))

C3_Witness ==
  /\ ReturnedNil
  /\ prog.family = "adder"
  /\ prog.p = <<1, 2, MaxAdd, TRUE>>
  /\ AdderGlobal.type = ClosureObj
  /\ Matches(LastPoppedStackElem(vm), ExpInt(3 + MaxAdd))
  \* the slots that held the arguments 1 and 2 have been overwritten
  /\ ~Matches(StackAt(vm, 1), ExpInt(1))
  /\ ~Matches(StackAt(vm, 2), ExpInt(2))

\* C4: a function bound by a top-level let that calls its own name reads
\* the name with OpGetGlobal, and is not captured by the closure; the
\* recursive fibonacci program returns the n-th Fibonacci number, with only
\* the main frame left
C4_RecursionThroughGlobal ==
  prog.family = "fib" =>
    /\ phase # "compile" =>
         /\ SubSeq(Bytecode(comp).Instructions, 1, 7)
              = Make(OpClosure, <<Len(comp.constants) - 2, 0>>) \o Make(OpSetGlobal, <<0>>)
         /\ \E i \in 1 .. Len(comp.constants[Len(comp.constants) - 1].Instructions) - 2 :
              SubSeq(comp.constants[Len(comp.constants) - 1].Instructions, i, i + 2)
                = Make(OpGetGlobal, <<0>>)
    /\ Ended =>
         /\ ReturnedNil
         /\ Matches(LastPoppedStackElem(vm), ExpInt(Fib(prog.p[1])))
         /\ vm.framesIndex = 1

C4_Witness ==
  /\ ReturnedNil
  /\ prog.family = "fib"
  /\ prog.p[1] = MaxFib
  /\ Matches(LastPoppedStackElem(vm), ExpInt(Fib(MaxFib)))
  /\ vm.framesIndex = 1


\* the compiler after compiling the expressions es, in that order, from scratch
RECURSIVE CodeOf(_, _)
CodeOf(c, es) == IF es = <<>> THEN c ELSE CodeOf(Compile(c, Head(es)), Tail(es))
LtExpression == Statements[1].Expression
LtHolds ==
  IF prog.family = "lt" THEN prog.p[1] < prog.p[2] ELSE prog.p[1] + 1 < prog.p[2] * 2

\* C5: a < b compiles to the code of b, then the code of a, then
\* OpGreaterThan, and running it yields True exactly when a is less than b
C5_LessThanIsSwappedGreaterThan ==
  prog.family \in {"lt", "ltexpr"} =>
    /\ phase # "compile" =>
         Bytecode(comp).Instructions
           = currentInstructions(CodeOf(NewCompiler(comp.tie),
                                        <<LtExpression.Right, LtExpression.Left>>))
               \o Make(OpGreaterThan, <<>>) \o Make(OpPop, <<>>)
    /\ Ended =>
         /\ ReturnedNil
         /\ LastPoppedStackElem(vm) = (IF LtHolds THEN True ELSE False)

C5_Witness ==
  /\ ReturnedNil
  /\ prog.family = "lt"
  /\ prog.p = <<MaxInt, MaxInt>>
  /\ LastPoppedStackElem(vm) = False
  /\ trace = <<MaxInt, MaxInt>>

\* C6: an if-expression yields the value of its consequence when the
\* condition is truthy, of its alternative when the condition is falsy and
\* there is an else-branch, Null when it is falsy and there is none; exactly
\* one of the two branches is executed
Executed(n) == \E i \in 1 .. Len(trace) : trace[i] = n
C6_IfExpression ==
  (prog.family = "if" /\ Ended) =>
    /\ ReturnedNil
    /\ Matches(LastPoppedStackElem(vm),
               IF prog.p[1] THEN ExpInt(10) ELSE IF prog.p[2] THEN ExpInt(20) ELSE ExpNull)
    /\ Executed(10) <=> prog.p[1]
    /\ Executed(20) <=> (~prog.p[1] /\ prog.p[2])

C6_Witness ==
  /\ ReturnedNil
  /\ prog.family = "if"
  /\ prog.p = <<FALSE, FALSE>>
  /\ LastPoppedStackElem(vm) = Null
  /\ ~Executed(10)

\* the next iteration of Run executes an instruction that only pushes a value
Operand16(v) == ReadUint16(Instructions(v, currentFrame(v)), currentFrame(v).ip + 2)
Pushing(v) ==
  \/ NextOp(v) \in {OpConstant, OpTrue, OpFalse, OpNull, OpGetGlobal, OpGetLocal,
                    OpGetFree}
  \/ NextOp(v) \in {OpArray, OpHash} /\ Operand16(v) = 0
  \/ NextOp(v) = OpClosure
       /\ ReadUint8(Instructions(v, currentFrame(v)), currentFrame(v).ip + 4) = 0
PushWhenFull == phase = "run" /\ RunCondition(vm) /\ vm.sp >= StackSize /\ Pushing(vm)

\* C7: an instruction that pushes a value while sp >= StackSize makes Run
\* return the error "stack overflow"; no stack slot is written and sp does
\* not change
C7_StackOverflow ==
  [][PushWhenFull =>
       /\ phase' = "returned"
       /\ vm'.err = <<"stack overflow">>
       /\ vm'.sp = vm.sp
       /\ vm'.stack = vm.stack]_vars

\* C8: when a call would make the frame stack deeper than MaxFrames, Run
\* returns an error; no frame is written at an index >= MaxFrames
CallWhenFull ==
  /\ phase = "run"
  /\ RunCondition(vm)
  /\ NextOp(vm) = OpCall
  /\ vm.framesIndex >= MaxFrames
C8_FrameOverflow ==
  [][CallWhenFull =>
       /\ phase' = "returned"
       /\ vm'.err # NoErr
       /\ Len(vm'.frames) <= MaxFrames]_vars

\* C9: when an instruction produces an error, Run returns it at once: no
\* further instruction is fetched and nothing changes afterwards
C9_ErrorAbortsRun ==
  /\ [](vm.err # NoErr => phase = "returned")
  /\ [][vm.err = NoErr]_vars

C9_Witness ==
  /\ phase = "returned"
  /\ vm.err = <<"unsupported type for negation: ", StringObj>>
  /\ vm.framesIndex = 2
  /\ RunCondition(vm)



\* the positions of the pairs of a hash literal in the order of their keys'
\* strings (the keys of the programs below have distinct strings)
KeyOrder(pairs) ==
  CHOOSE f \in [1 .. Len(pairs) -> 1 .. Len(pairs)] :
    \A i, j \in 1 .. Len(pairs) :
      i < j => StringLess(NodeString(pairs[f[i]][1]), NodeString(pairs[f[j]][1]))
\* the integer literals of an expression without branches, in the order
\* named: every operand pair left to right, or those of < right to left
RECURSIVE EvaluationOrder(_, _), EvaluationOrderAll(_, _)
EvaluationOrder(node, swapLess) ==
  CASE node.kind = "IntegerLiteral" -> <<node.Value>>
    [] node.kind = "PrefixExpression" -> EvaluationOrder(node.Right, swapLess)
    [] node.kind = "InfixExpression" ->
         IF swapLess /\ node.Operator = "<"
         THEN EvaluationOrderAll(<<node.Right, node.Left>>, swapLess)
         ELSE EvaluationOrderAll(<<node.Left, node.Right>>, swapLess)
    [] node.kind = "IndexExpression" ->
         EvaluationOrderAll(<<node.Left, node.Index>>, swapLess)
    [] node.kind = "CallExpression" ->
         EvaluationOrderAll(<<node.Function>> \o node.Arguments, swapLess)
    [] node.kind = "ArrayLiteral" -> EvaluationOrderAll(node.Elements, swapLess)
    [] node.kind = "HashLiteral" ->
         EvaluationOrderAll(
           [k \in 1 .. 2 * Len(node.Pairs) |->
              node.Pairs[KeyOrder(node.Pairs)[(k + 1) \div 2]][2 - (k % 2)]],
           swapLess)
    [] OTHER -> <<>>
EvaluationOrderAll(nodes, swapLess) ==
  IF nodes = <<>> THEN <<>>
  ELSE EvaluationOrder(Head(nodes), swapLess) \o EvaluationOrderAll(Tail(nodes), swapLess)

IsPrefix(s, t) == Len(s) <= Len(t) /\ s = SubSeq(t, 1, Len(s))
StraightLine == prog.family \in {"order", "lt", "ltexpr"}
LeftToRight == EvaluationOrder(Statements[1].Expression, FALSE)
LessRightToLeft == EvaluationOrder(Statements[1].Expression, TRUE)

\* C10 as stated: the sub-expressions are evaluated strictly left to right,
\* those of < included, call arguments after the callee, array elements in
\* source order, hash entries in key-string order, each key before its value
C10_StrictlyLeftToRight ==
  StraightLine =>
    /\ IsPrefix(trace, LeftToRight)
    /\ Ended => trace = LeftToRight

\* C10 amended: the same, but the right operand of < is evaluated before
\* its left operand
C10_LeftToRightButLess ==
  StraightLine =>
    /\ IsPrefix(trace, LessRightToLeft)
    /\ Ended => (ReturnedNil /\ trace = LessRightToLeft)

C10_Witness ==
  /\ ReturnedNil
  /\ prog.family = "order"
  /\ trace = <<3, 4, 1, 2>>
  /\ LeftToRight = <<1, 2, 3, 4>>

EndsWithLet == ReturnedNil /\ LastStatement.kind = "LetStatement"

\* C11 as stated: when the last statement of a program is a let statement
\* and Run returns no error, LastPoppedStackElem() is Null
C11_NullAfterLet == EndsWithLet => LastPoppedStackElem(vm) = Null

\* C11 amended: when the last statement of a program is a let statement and
\* Run returns no error, LastPoppedStackElem() is the value the let binds,
\* which OpSetGlobal popped last (Null only when that value is Null)
C11_LetValueAfterLet ==
  EndsWithLet =>
    /\ Matches(LastPoppedStackElem(vm), prog.expected)
    /\ LastPoppedStackElem(vm) = GlobalAt(vm, 0)
    /\ vm.sp = 0

C11_Witness ==
  /\ EndsWithLet
  /\ prog.family = "letlast"
  /\ prog.p = <<1, MaxInt>>
  /\ Matches(LastPoppedStackElem(vm), ExpInt(MaxInt))

\* the parameters a sequence of references names, each once, in the order
\* of its first reference
RECURSIVE FirstUse(_, _)
FirstUse(refs, seen) ==
  IF refs = <<>> THEN seen
  ELSE IF \E i \in 1 .. Len(seen) : seen[i] = Head(refs)
  THEN FirstUse(Tail(refs), seen)
  ELSE FirstUse(Tail(refs), Append(seen, Head(refs)))
Captured == FirstUse(prog.p, <<>>)
FreeIndex(param) == (CHOOSE i \in 1 .. Len(Captured) : Captured[i] = param) - 1
\* the instructions the two functions of Capturing(prog.p) are to have
RECURSIVE GetFrees(_)
GetFrees(refs) ==
  IF Len(refs) = 1 THEN Make(OpGetFree, <<FreeIndex(refs[1])>>)
  ELSE GetFrees(SubSeq(refs, 1, Len(refs) - 1))
         \o Make(OpGetFree, <<FreeIndex(refs[Len(refs)])>>) \o Make(OpAdd, <<>>)
RECURSIVE GetLocals(_)
GetLocals(params) ==
  IF params = <<>> THEN <<>>
  ELSE Make(OpGetLocal, <<Head(params) - 1>>) \o GetLocals(Tail(params))

\* C12: the i-th symbol a function literal captures, in the order of first
\* reference, is read inside with OpGetFree i and is the i-th value the
\* enclosing scope loads right before OpClosure, whose second operand is the
\* number of captured symbols
C12_FreeSymbolsInFirstUseOrder ==
  prog.family = "free" =>
    /\ phase # "compile" =>
         /\ comp.constants[1].Instructions
              = GetFrees(prog.p) \o Make(OpReturnValue, <<>>)
         /\ comp.constants[2].Instructions
              = GetLocals(Captured) \o Make(OpClosure, <<0, Len(Captured)>>)
                  \o Make(OpReturnValue, <<>>)
    /\ Ended => ReturnedNil /\ Matches(LastPoppedStackElem(vm), prog.expected)
    /\ (phase = "run" /\ vm.framesIndex = 2 /\ StackTop(vm).type = ClosureObj) =>
         /\ Len(StackTop(vm).Free) = Len(Captured)
         /\ \A i \in 1 .. Len(Captured) :
              Matches(StackTop(vm).Free[i], ExpInt(Power(10, Captured[i] - 1)))

C12_Witness ==
  /\ ReturnedNil
  /\ prog.family = "free"
  /\ prog.p = <<2, 1, 2>>
  /\ comp.constants[1].Instructions
       = Make(OpGetFree, <<0>>) \o Make(OpGetFree, <<1>>) \o Make(OpAdd, <<>>)
           \o Make(OpGetFree, <<0>>) \o Make(OpAdd, <<>>) \o Make(OpReturnValue, <<>>)
  /\ comp.constants[2].Instructions
       = Make(OpGetLocal, <<1>>) \o Make(OpGetLocal, <<0>>) \o Make(OpClosure, <<0, 2>>)
           \o Make(OpReturnValue, <<>>)
  /\ Matches(LastPoppedStackElem(vm), ExpInt(21))

\* the function literal of a program that is one, its body, and the compiler
\* after compiling that body in a scope of its own
Literal == Statements[1].Expression
Body == Literal.Body.Statements
BodyCompiled ==
  Compile([enterScope(NewCompiler(comp.tie)) EXCEPT
             !.symbolTable = defineParameters(@, Literal.Parameters)],
          Literal.Body)
BodyCode == currentInstructions(BodyCompiled)
FunctionCode == comp.constants[Len(comp.constants)].Instructions

\* C13: a function whose body ends in an expression statement ends in
\* OpReturnValue, written over that statement's OpPop; a function with an
\* empty body is exactly OpReturn; any other function whose last instruction
\* is not OpReturnValue gets an OpReturn appended
C13_FunctionEndsInReturn ==
  (prog.family = "fn" /\ phase # "compile") =>
    /\ phase # "compile failed"
    /\ Body = <<>> => FunctionCode = Make(OpReturn, <<>>)
    /\ (Body # <<>> /\ Body[Len(Body)].kind = "ExpressionStatement") =>
         /\ BodyCode[Len(BodyCode)] = OpPop
         /\ Len(FunctionCode) = Len(BodyCode)
         /\ FunctionCode
              = SubSeq(BodyCode, 1, Len(BodyCode) - 1) \o Make(OpReturnValue, <<>>)
    /\ (Body # <<>> /\ Body[Len(Body)].kind # "ExpressionStatement") =>
         FunctionCode
           = (IF BodyCompiled.scopes[2].lastInstruction.Opcode = OpReturnValue
              THEN BodyCode ELSE BodyCode \o Make(OpReturn, <<>>))

C13_Witness ==
  /\ ReturnedNil
  /\ prog.family = "fn"
  /\ prog.p = <<3>>
  /\ FunctionCode
       = Make(OpConstant, <<0>>) \o Make(OpConstant, <<1>>) \o Make(OpAdd, <<>>)
           \o Make(OpReturnValue, <<>>)
  /\ BodyCode
       = Make(OpConstant, <<0>>) \o Make(OpConstant, <<1>>) \o Make(OpAdd, <<>>)
           \o Make(OpPop, <<>>)

\* the next iteration of Run executes OpIndex on these operands
IndexStep == phase = "run" /\ RunCondition(vm) /\ NextOp(vm) = OpIndex
IndexLeft == StackAt(vm, vm.sp - 2)
IndexKey == StackAt(vm, vm.sp - 1)
InRange == 0 <= IndexKey.Value /\ IndexKey.Value < Len(IndexLeft.Elements)
Present == \E j \in 1 .. Len(IndexLeft.Pairs) : IndexLeft.Pairs[j].hk = HashKey(IndexKey)

\* C14: OpIndex on an Array and an Integer pushes the element at that index,
\* or Null when the index is outside [0, len-1]; on a Hash and a hashable
\* key it pushes the value stored under the key, or Null when the key is
\* absent; in neither case does Run fail
C14_AbsentElementIsNull ==
  [][/\ (IndexStep /\ IndexLeft.type = ArrayObj /\ IndexKey.type = IntegerObj) =>
          /\ phase' = "run"
          /\ vm'.err = NoErr
          /\ vm'.sp = vm.sp - 1
          /\ StackTop(vm') = (IF InRange THEN IndexLeft.Elements[IndexKey.Value + 1]
                              ELSE Null)
     /\ (IndexStep /\ IndexLeft.type = HashObj /\ Hashable(IndexKey)) =>
          /\ phase' = "run"
          /\ vm'.err = NoErr
          /\ vm'.sp = vm.sp - 1
          /\ IF Present
             THEN \E j \in 1 .. Len(IndexLeft.Pairs) :
                    /\ IndexLeft.Pairs[j].hk = HashKey(IndexKey)
                    /\ StackTop(vm') = IndexLeft.Pairs[j].Value
             ELSE StackTop(vm') = Null
     /\ (prog.family \in {"index", "hashindex"} /\ phase' = "returned") =>
          /\ vm'.err = NoErr
          /\ Matches(LastPoppedStackElem(vm'), prog.expected)]_vars

C14_Witness ==
  /\ ReturnedNil
  /\ prog.family = "index"
  /\ prog.p = <<0, 0 - 1>>
  /\ LastPoppedStackElem(vm) = Null

\* Compile has returned nil and New has made the VM
JustCompiled == phase = "run" /\ vm.framesIndex = 1 /\ currentFrame(vm).ip = -1
\* the bytecode of a fresh compiler whose map iteration leaves the keys of
\* equal text in the order t
BytecodeOf(t) == Bytecode(Compile(NewCompiler(t), prog.ast))

\* C15: compiling the same AST twice yields the same instructions and the
\* same constants, also when a hash literal has two keys of the same text
C15_CompileIsDeterministic ==
  JustCompiled => \A t \in BOOLEAN : BytecodeOf(t) = Bytecode(comp)

\* C16: an identifier that no scope of the current chain defines makes
\* Compile return "undefined variable <name>" and emits no instruction; an
\* identifier that the current or an enclosing scope defines does not
C16_UndefinedVariable ==
  /\ prog.family = "undefined" =>
       /\ phase \in {"compile", "compile failed"}
       /\ stmt > Len(Statements) => phase = "compile failed"
       /\ phase = "compile failed" =>
            /\ comp.err = <<"undefined variable ", "x">>
            /\ currentInstructions(comp) = prog.p[1]
  /\ prog.family = "defined" =>
       /\ phase # "compile failed"
       /\ comp.err = NoErr

C16_Witness ==
  /\ phase = "compile failed"
  /\ prog.family = "undefined"
  /\ comp.scopeIndex = 2
  /\ comp.err = <<"undefined variable ", "x">>
  /\ currentInstructions(comp)
       = Make(OpGetFree, <<0>>) \o Make(OpGetLocal, <<0>>) \o Make(OpAdd, <<>>)

\* the number of integer, string and function literals that occur in a node
RECURSIVE Literals(_), LiteralsOf(_)
Literals(node) ==
  CASE node.kind \in {"IntegerLiteral", "StringLiteral"} -> 1
    [] node.kind = "FunctionLiteral" -> 1 + Literals(node.Body)
    [] node.kind \in {"Program", "BlockStatement"} -> LiteralsOf(node.Statements)
    [] node.kind = "ExpressionStatement" -> Literals(node.Expression)
    [] node.kind = "LetStatement" -> Literals(node.Value)
    [] node.kind = "ReturnStatement" -> Literals(node.ReturnValue)
    [] node.kind = "PrefixExpression" -> Literals(node.Right)
    [] node.kind = "InfixExpression" -> Literals(node.Left) + Literals(node.Right)
    [] node.kind = "IfExpression" ->
         Literals(node.Condition) + Literals(node.Consequence)
           + Literals(node.Alternative)
    [] node.kind = "IndexExpression" -> Literals(node.Left) + Literals(node.Index)
    [] node.kind = "CallExpression" ->
         Literals(node.Function) + LiteralsOf(node.Arguments)
    [] node.kind = "ArrayLiteral" -> LiteralsOf(node.Elements)
    [] node.kind = "HashLiteral" ->
         LiteralsOf([i \in 1 .. Len(node.Pairs) |-> node.Pairs[i][1]])
           + LiteralsOf([i \in 1 .. Len(node.Pairs) |-> node.Pairs[i][2]])
    [] OTHER -> 0
LiteralsOf(nodes) ==
  IF nodes = <<>> THEN 0 ELSE Literals(Head(nodes)) + LiteralsOf(Tail(nodes))

\* the constants that the OpConstant and OpClosure instructions of a stream
\* refer to, from offset off on, each with its opcode
RECURSIVE ConstantRefs(_, _)
ConstantRefs(ins, off) ==
  IF off >= Len(ins) THEN <<>>
  ELSE LET op == ins[off + 1]
           widths == OperandWidths(op)
           width == CASE Len(widths) = 0 -> 1
                      [] Len(widths) = 1 -> 1 + widths[1]
                      [] OTHER -> 1 + widths[1] + widths[2]
           here == IF op \in {OpConstant, OpClosure}
                   THEN <<<<op, ReadUint16(ins, off + 1)>>>> ELSE <<>>
       IN here \o ConstantRefs(ins, off + width)

\* the instruction streams of a compiler between two statements: the main
\* one and those of the compiled functions of the pool
Streams(c) ==
  <<currentInstructions(c)>>
    \o [i \in 1 .. Cardinality({j \in 1 .. Len(c.constants) :
                                  c.constants[j].type = CompiledFunctionObj}) |->
          LET j == CHOOSE j \in 1 .. Len(c.constants) :
                     /\ c.constants[j].type = CompiledFunctionObj
                     /\ Cardinality({k \in 1 .. j :
                                       c.constants[k].type = CompiledFunctionObj}) = i
          IN c.constants[j].Instructions]

\* every constant is referred to by exactly one instruction, of its kind, and
\* the references of a stream are in the order of the pool
IndexedOnce(c) ==
  LET refs == [s \in 1 .. Len(Streams(c)) |-> ConstantRefs(Streams(c)[s], 0)] IN
  /\ \A k \in 1 .. Len(c.constants) :
       Cardinality({<<s, i>> \in (1 .. Len(refs)) \X (1 .. 2 * Len(c.constants)) :
                      i <= Len(refs[s]) /\ refs[s][i][2] = k - 1}) = 1
  /\ \A s \in 1 .. Len(refs) :
       /\ \A i \in 1 .. Len(refs[s]) :
            /\ refs[s][i][2] < Len(c.constants)
            /\ (refs[s][i][1] = OpClosure)
                 = (c.constants[refs[s][i][2] + 1].type = CompiledFunctionObj)
       /\ \A i, j \in 1 .. Len(refs[s]) : i < j => refs[s][i][2] < refs[s][j][2]

\* the values of the constants: integers, strings, instructions of functions
ConstantValues(c) ==
  [i \in 1 .. Len(c.constants) |->
     IF c.constants[i].type = CompiledFunctionObj
     THEN c.constants[i].Instructions ELSE c.constants[i].Value]

\* C17: compiling a statement only appends to the constants, one constant for
\* each integer, string and function literal in it, equal literals included;
\* each constant is referred to by the one OpConstant or OpClosure emitted
\* for it; and the pools and instructions of the listed programs are the
\* expected ones
C17_ConstantsAppendOnly ==
  [][phase = "compile" /\ stmt' = stmt + 1 =>
       /\ IsPrefix(comp.constants, comp'.constants)
       /\ ~CompileFailed(comp') =>
            /\ Len(comp'.constants)
                 = Len(comp.constants) + Literals(Statements[stmt])
            /\ IndexedOnce(comp')
            /\ (prog.family = "constants" /\ stmt = Len(Statements)) =>
                 /\ ConstantValues(comp') = prog.p[1]
                 /\ currentInstructions(comp') = prog.p[2]]_vars

C17_Witness ==
  /\ prog.family = "constants"
  /\ phase = "compile"
  /\ stmt > Len(Statements)
  /\ ConstantValues(comp) = <<1, 2, 3, 1, 1>>
  /\ IndexedOnce(comp)

\* C18: leaveScope gives back the symbol table the compiler had before the
\* matching enterScope (with no outer table when that was the global one),
\* the scope index, and the instructions and the last and previous
\* instruction of the outer scopes; what was emitted in the scope is the
\* stream leaveScope returns and nowhere else
C18_LeaveScopeRestores ==
  [][phase = "scopes" /\ comp'.scopeIndex < comp.scopeIndex =>
       LET e == entered[Len(entered)] IN
       /\ comp'.symbolTable = e.before.symbolTable
       /\ comp'.scopeIndex = 0 => Len(comp'.symbolTable) = 1
       /\ comp'.scopeIndex = e.before.scopeIndex
       /\ comp'.scopes = e.before.scopes
       /\ trace' = e.emitted
       /\ comp' = e.before]_vars

C18_Witness ==
  /\ phase = "scopes"
  /\ trace = Make(OpSub, <<>>)
  /\ comp.scopeIndex = 0
  /\ Len(comp.symbolTable) = 1
  /\ "g" \in DOMAIN comp.symbolTable[1].store
  /\ currentInstructions(comp) = Make(OpMul, <<>>)
  /\ comp.scopes[1].lastInstruction = EmittedInstruction(OpMul, 0)

EqualStep ==
  phase = "run" /\ RunCondition(vm) /\ NextOp(vm) \in {OpEqual, OpNotEqual}
EqualLeft == StackAt(vm, vm.sp - 2)
EqualRight == StackAt(vm, vm.sp - 1)
\* both operands are Booleans or Null, and both the same one of the three
SameSingleton ==
  /\ EqualLeft.type = EqualRight.type
  /\ EqualLeft.type = BooleanObj => EqualLeft.Value = EqualRight.Value
SameValue ==
  IF EqualLeft.type = IntegerObj
  THEN EqualLeft.Value = EqualRight.Value ELSE SameSingleton

\* C19: on two operands that are Booleans or Null, OpEqual pushes True when
\* both are the same singleton and False otherwise; on two Integers, True
\* when their values are equal and False otherwise; OpNotEqual pushes the
\* opposite; what is pushed is the singleton True or the singleton False
C19_EqualityOfSingletonsAndIntegers ==
  [][(/\ EqualStep
      /\ \/ {EqualLeft.type, EqualRight.type} \subseteq {BooleanObj, NullObj}
         \/ {EqualLeft.type, EqualRight.type} = {IntegerObj}) =>
       /\ phase' = "run"
       /\ vm'.sp = vm.sp - 1
       /\ StackTop(vm') = IF (NextOp(vm) = OpEqual) = SameValue THEN True ELSE False]_vars

C19_Witness ==
  /\ ReturnedNil
  /\ prog.family = "equal"
  /\ prog.p = <<"singletons", 3, 3, 1>>
  /\ LastPoppedStackElem(vm) = True

\* a < b of two integer literals has been compiled
LtCompiled ==
  /\ prog.family = "lt"
  /\ prog.p[1] >= 0
  /\ prog.p[2] >= 0
  /\ stmt > Len(Statements)
LtCode ==
  Make(OpConstant, <<0>>) \o Make(OpConstant, <<1>>)
    \o Make(OpGreaterThan, <<>>) \o Make(OpPop, <<>>)

InFunction == phase = "run" /\ RunCondition(vm) /\ vm.framesIndex > 1
BasePointer == currentFrame(vm).basePointer
Returning == InFunction /\ NextOp(vm) \in {OpReturnValue, OpReturn}
Calling == phase = "run" /\ RunCondition(vm) /\ NextOp(vm) = OpCall

\* C21: a call that enters a closure with N arguments at sp = s gives the
\* frame the base pointer s - N; no instruction of the frame changes a stack
\* slot below the callee's, at s - 1 - N; and its OpReturnValue or OpReturn
\* leaves sp = s - N, the value returned (Null for OpReturn) in the callee's
\* slot, and the caller's frame current with its ip on the OpCall's operand
C21_CallIsStackNeutral ==
  [][/\ (Calling /\ vm'.framesIndex > vm.framesIndex) =>
          /\ currentFrame(vm').basePointer = vm.sp - CallArgs(vm)
          /\ vm'.stack = vm.stack
     /\ InFunction =>
          \A i \in 0 .. BasePointer - 2 : StackAt(vm', i) = StackAt(vm, i)
     /\ (Returning /\ phase' = "run") =>
          /\ vm'.sp = BasePointer
          /\ vm'.framesIndex = vm.framesIndex - 1
          /\ StackAt(vm', BasePointer - 1)
               = IF NextOp(vm) = OpReturn THEN Null ELSE Top(vm)
          /\ Instructions(vm', currentFrame(vm'))[currentFrame(vm').ip] = OpCall]_vars

NumLocals == FunctionOf(vm, currentFrame(vm).cl).NumLocals
LocalIndex == ReadUint8(Instructions(vm, currentFrame(vm)), currentFrame(vm).ip + 2)

\* C22: while a function frame is current, sp is not below the end of its
\* local slots, the index of every OpGetLocal and OpSetLocal is below
\* NumLocals, and an instruction of the frame changes none of its local
\* slots except the one an OpSetLocal names: the arguments and the locals
\* stay what they were set to
C22_LocalsAreReserved ==
  [][InFunction =>
       /\ vm.sp >= BasePointer + NumLocals
       /\ NextOp(vm) \in {OpGetLocal, OpSetLocal} => LocalIndex < NumLocals
       /\ vm'.framesIndex = vm.framesIndex =>
            \A i \in 0 .. NumLocals - 1 :
              (NextOp(vm) = OpSetLocal /\ LocalIndex = i)
                \/ StackAt(vm', BasePointer + i) = StackAt(vm, BasePointer + i)]_vars

\* C23: framesIndex is at least 1 in every state of the VM, and OpReturnValue
\* and OpReturn execute in a function frame only, never in the main frame
C23_MainFrameIsNeverPopped ==
  [][phase = "run" =>
       /\ vm.framesIndex >= 1
       /\ vm'.framesIndex >= 1
       /\ (RunCondition(vm) /\ NextOp(vm) \in {OpReturnValue, OpReturn}) =>
            vm.framesIndex > 1]_vars

\* the first stack slot above the locals of the current frame
OperandBase == IF vm.framesIndex > 1 THEN BasePointer + NumLocals ELSE 0

\* C24: the OpPop of an expression statement and the OpSetGlobal or
\* OpSetLocal of a let statement find the value of their expression on the
\* stack: they pop with sp above the operand base of the frame, and do
\* not fail
C24_ExpressionLeavesOneValue ==
  [][(/\ phase = "run"
      /\ RunCondition(vm)
      /\ NextOp(vm) \in {OpPop, OpSetGlobal, OpSetLocal}) =>
       /\ vm.sp > OperandBase
       /\ vm'.sp = vm.sp - 1
       /\ phase' = "run"]_vars

\* C25: in every state of the VM 0 <= sp <= StackSize, and a call does not
\* reserve local slots beyond the end of the stack
C25_StackPointerInBounds ==
  phase \in {"run", "returned", "panicked"} =>
    /\ 0 <= vm.sp
    /\ vm.sp <= StackSize

\* C26: OpGetGlobal and OpGetLocal push a value that was stored in the slot
\* they read: never the nil of a global or of a stack slot that nothing was
\* stored in
C26_NoUnsetSlotIsRead ==
  [][(/\ phase = "run"
      /\ RunCondition(vm)
      /\ NextOp(vm) \in {OpGetGlobal, OpGetLocal}
      /\ phase' = "run") =>
       StackTop(vm') # Nil]_vars

\* C27: OpEqual, OpNotEqual and OpGreaterThan never execute on one Integer
\* and one operand that is not an Integer
C27_NoMixedComparison ==
  [][(/\ phase = "run"
      /\ RunCondition(vm)
      /\ NextOp(vm) \in {OpEqual, OpNotEqual, OpGreaterThan}) =>
       (EqualLeft.type = IntegerObj) = (EqualRight.type = IntegerObj)]_vars

\* C28: when Compile has returned an error, the compiler is in its root
\* scope: scopeIndex is 0, the symbol table is the root table, and the
\* instructions of Bytecode() are those of the root scope
C28_RootScopeAfterError ==
  phase = "compile failed" =>
    /\ comp.scopeIndex = 0
    /\ Len(comp.symbolTable) = 1
    /\ Len(comp.scopes) = 1
    /\ Bytecode(comp).Instructions = comp.scopes[1].instructions

\* the instructions of a stream from offset off on: the offset, the opcode
\* and the first operand of each
RECURSIVE Decode(_, _)
Decode(ins, off) ==
  IF off >= Len(ins) THEN <<>>
  ELSE LET op == ins[off + 1]
           widths == OperandWidths(op)
           width == CASE Len(widths) = 0 -> 1
                      [] Len(widths) = 1 -> 1 + widths[1]
                      [] OTHER -> 1 + widths[1] + widths[2]
           arg == CASE Len(widths) = 0 -> 0
                    [] widths[1] = 2 -> ReadUint16(ins, off + 1)
                    [] OTHER -> ReadUint8(ins, off + 1)
       IN <<[pos |-> off, op |-> op, arg |-> arg]>> \o Decode(ins, off + width)

\* the first n instructions of a stream, from offset off on
MaxDecoded == 6
RECURSIVE DecodeFirst(_, _, _)
DecodeFirst(ins, off, n) ==
  IF n = 0 \/ off >= Len(ins) THEN <<>>
  ELSE LET widths == OperandWidths(ins[off + 1])
           width == CASE Len(widths) = 0 -> 1
                      [] Len(widths) = 1 -> 1 + widths[1]
                      [] OTHER -> 1 + widths[1] + widths[2]
       IN <<Decode(SubSeq(ins, 1, off + width), off)[1]>>
            \o DecodeFirst(ins, off + width, n - 1)

\* Compile has returned nil for the whole program
Compiled == phase = "compile" /\ stmt > Len(Statements)

\* every OpJumpNotTruthy of the stream targets the instruction after an
\* OpJump further on, which is not preceded by an OpPop and targets an
\* instruction at or after that one, itself not preceded by an OpPop; and
\* every OpJump is the one of an OpJumpNotTruthy before it
JumpsPatched(ins) ==
  LET d == Decode(ins, 0)
      Start(t) == \E k \in 1 .. Len(d) : d[k].pos = t
      Preceding(t) == CHOOSE k \in 1 .. Len(d) - 1 : d[k + 1].pos = t
  IN
  /\ \A i \in 1 .. Len(d) : d[i].op = OpJumpNotTruthy =>
       /\ Start(d[i].arg)
       /\ \E j \in i + 1 .. Len(d) :
            /\ d[j].op = OpJump
            /\ d[j].pos + 3 = d[i].arg
            /\ d[j - 1].op # OpPop
            /\ Start(d[j].arg)
            /\ d[j].arg >= d[i].arg
            /\ d[Preceding(d[j].arg)].op # OpPop
  /\ \A j \in 1 .. Len(d) : d[j].op = OpJump =>
       \E i \in 1 .. j - 1 : d[i].op = OpJumpNotTruthy /\ d[i].arg = d[j].pos + 3

\* every OpJumpNotTruthy among the first instructions of the stream has as
\* its operand an offset of the stream past an OpJump that follows it
FirstJumpsPatched(ins) ==
  LET d == DecodeFirst(ins, 0, MaxDecoded) IN
  \A i \in 1 .. Len(d) : d[i].op = OpJumpNotTruthy =>
    /\ d[i].arg >= d[i].pos + 6
    /\ d[i].arg <= Len(ins)
    /\ ins[d[i].arg - 2] = OpJump

JumpsForward(d) ==
  \A i \in 1 .. Len(d) :
    d[i].op \in {OpJump, OpJumpNotTruthy} => d[i].arg > d[i].pos

EndsInReturn(ins) ==
  LET d == Decode(ins, 0) IN
  /\ d # <<>>
  /\ d[Len(d)].op \in {OpReturnValue, OpReturn}
  /\ \A i \in 1 .. Len(d) :
       d[i].op \in {OpJump, OpJumpNotTruthy} => d[i].arg <= d[Len(d)].pos

\* C31: the instructions of every compiled function end in OpReturnValue or
\* OpReturn and none of their jumps targets an offset beyond that
\* instruction; while Run executes, the end-of-instructions condition of
\* the fetch loop holds only when the current frame is the main frame, and
\* Run returns nil only there
C31_FunctionFrameEndsInReturn ==
  /\ Compiled =>
       \A s \in 2 .. Len(Streams(comp)) : EndsInReturn(Streams(comp)[s])
  /\ (phase = "run" /\ ~RunCondition(vm)) => vm.framesIndex = 1
  /\ ReturnedNil => vm.framesIndex = 1

\* function(x) { let a = 1 }(7) has returned null from the OpReturn that
\* follows the let statement, and Run has ended in the main frame
C31_Witness ==
  /\ ReturnedNil
  /\ prog.family = "uncovered" /\ Len(prog.p) = 2 /\ prog.p[2] = 5
  /\ Bodies[5] = <<LetStmt("a", IntLit(1))>>
  /\ Streams(comp)[2] = Make(OpConstant, <<0>>) \o Make(OpSetLocal, <<1>>)
                           \o Make(OpReturn, <<>>)
  /\ vm.framesIndex = 1
  /\ LastPoppedStackElem(vm) = Null


\* the parameters of a and b that the sum of the function c refers to, in
\* the order of first reference: the free symbols of c
IsOuterParameter(u) == u \in {2, 3}
FreeOfC == FirstUse(SelectSeq(prog.p, IsOuterParameter), <<>>)
CapturesA == \E i \in 1 .. Len(FreeOfC) : FreeOfC[i] = 2
\* the load of one name inside c
LoadInC(u) ==
  CASE u = 1 -> Make(OpGetGlobal, <<0>>)
    [] u = 4 -> Make(OpGetLocal, <<0>>)
    [] OTHER -> Make(OpGetFree,
                     <<(CHOOSE i \in 1 .. Len(FreeOfC) : FreeOfC[i] = u) - 1>>)
RECURSIVE SumInC(_)
SumInC(uses) ==
  IF Len(uses) = 1 THEN LoadInC(uses[1])
  ELSE SumInC(SubSeq(uses, 1, Len(uses) - 1)) \o LoadInC(uses[Len(uses)])
         \o Make(OpAdd, <<>>)
\* the loads of the free symbols of c inside b
RECURSIVE LoadsInB(_)
LoadsInB(frees) ==
  IF frees = <<>> THEN <<>>
  ELSE (IF Head(frees) = 3 THEN Make(OpGetLocal, <<0>>) ELSE Make(OpGetFree, <<0>>))
         \o LoadsInB(Tail(frees))

\* C32: in function(a) { function(b) { function(c) { sum } } } the function c
\* reads a and b with OpGetFree in the order of first reference, c with
\* OpGetLocal and the global g with OpGetGlobal; b pushes its own
\* parameter with OpGetLocal and a, which it captures in turn, with
\* OpGetFree before the OpClosure of c; a pushes its parameter with
\* OpGetLocal before the OpClosure of b exactly when c refers to it; g is
\* counted in no OpClosure; and the calls yield the sum of the values
C32_TransitiveCapture ==
  prog.family = "closure" =>
    /\ phase # "compile" =>
         /\ comp.constants[2].Instructions
              = SumInC(prog.p) \o Make(OpReturnValue, <<>>)
         /\ comp.constants[3].Instructions
              = LoadsInB(FreeOfC) \o Make(OpClosure, <<1, Len(FreeOfC)>>)
                  \o Make(OpReturnValue, <<>>)
         /\ comp.constants[4].Instructions
              = (IF CapturesA THEN Make(OpGetLocal, <<0>>) ELSE <<>>)
                  \o Make(OpClosure, <<2, IF CapturesA THEN 1 ELSE 0>>)
                  \o Make(OpReturnValue, <<>>)
         /\ currentInstructions(comp)
              = Make(OpConstant, <<0>>) \o Make(OpSetGlobal, <<0>>)
                  \o Make(OpClosure, <<3, 0>>)
                  \o Make(OpConstant, <<4>>) \o Make(OpCall, <<1>>)
                  \o Make(OpConstant, <<5>>) \o Make(OpCall, <<1>>)
                  \o Make(OpConstant, <<6>>) \o Make(OpCall, <<1>>)
                  \o Make(OpPop, <<>>)
    /\ Ended => ReturnedNil /\ Matches(LastPoppedStackElem(vm), prog.expected)

\* function(c) { g + a } has run: a reached it through the free symbols of b
C32_Witness ==
  /\ prog.family = "closure"
  /\ prog.p = <<1, 2>>
  /\ ReturnedNil
  /\ comp.constants[2].Instructions
       = Make(OpGetGlobal, <<0>>) \o Make(OpGetFree, <<0>>) \o Make(OpAdd, <<>>)
           \o Make(OpReturnValue, <<>>)
  /\ comp.constants[3].Instructions
       = Make(OpGetFree, <<0>>) \o Make(OpClosure, <<1, 1>>)
           \o Make(OpReturnValue, <<>>)
  /\ comp.constants[4].Instructions
       = Make(OpGetLocal, <<0>>) \o Make(OpClosure, <<2, 1>>)
           \o Make(OpReturnValue, <<>>)
  /\ Matches(LastPoppedStackElem(vm), ExpInt(1001))


\* the last statement of the program is a hash literal
HashProgram ==
  /\ LastStatement.kind = "ExpressionStatement"
  /\ LastStatement.Expression.kind = "HashLiteral"
LastPairs == LastStatement.Expression.Pairs
DistinctTexts(pairs) ==
  \A i, j \in 1 .. Len(pairs) :
    i # j => NodeString(pairs[i][1]) # NodeString(pairs[j][1])
\* the compiler before the last statement, when the map iteration leaves the
\* keys of equal text in the order t
BeforeLast(t) ==
  CompileAll(NewCompiler(t), SubSeq(Statements, 1, Len(Statements) - 1))
\* the instructions of the program when each key, in ascending order of its
\* text, is followed by its value and one OpHash ends the literal
InTextOrder ==
  currentInstructions(
    emit(emit(CompilePairs(BeforeLast(FALSE), LastPairs,
                           [i \in 1 .. Len(LastPairs) |-> KeyOrder(LastPairs)[i]]),
              OpHash, <<2 * Len(LastPairs)>>),
         OpPop, <<>>))

\* C33: a hash literal is compiled to the code of each key, in ascending
\* order of the keys' texts, followed by the code of its value, and then one
\* OpHash with twice the number of pairs; the instructions are the same
\* whichever order the map of the pairs yields them in
C33_HashKeysInTextOrder ==
  (JustCompiled /\ HashProgram) =>
    /\ DistinctTexts(LastPairs) => currentInstructions(comp) = InTextOrder
    /\ \A t \in BOOLEAN :
         BytecodeOf(t).Instructions = currentInstructions(comp)


BangStep == phase = "run" /\ RunCondition(vm) /\ NextOp(vm) = OpBang

\* C34: OpBang replaces its operand by True when the operand is not truthy,
\* which is so exactly for Null and False, and by False for every other
\* operand; !v and !!v yield the values that follow for a v of every type
C34_BangAgreesWithTruthiness ==
  [][/\ BangStep =>
          /\ phase' = "run"
          /\ vm'.sp = vm.sp
          /\ isTruthy(Top(vm)) = ~(Top(vm) \in {Null, False})
          /\ StackTop(vm') = IF isTruthy(Top(vm)) THEN False ELSE True
     /\ (prog.family = "bang" /\ phase = "run" /\ phase' # "run") =>
          /\ phase' = "returned" /\ vm'.err = NoErr
          /\ LastPoppedStackElem(vm') = IF prog.expected.Value THEN True ELSE False
    ]_vars

\* !!0 has yielded True
C34_Witness ==
  /\ ReturnedNil
  /\ prog.family = "bang"
  /\ prog.p = <<4, 2>>
  /\ prog.ast = P1(Prefix("!", Prefix("!", IntLit(0))))
  /\ LastPoppedStackElem(vm) = True


\* the two operands are Strings, Arrays, Hashes or Closures
ObjectOperands ==
  {EqualLeft.type, EqualRight.type} \subseteq {StringObj, ArrayObj, HashObj, ClosureObj}

\* C35: on two operands that are Strings, Arrays, Hashes or Closures OpEqual
\* pushes True when both are the same object and False otherwise, whatever
\* their contents, and OpNotEqual pushes the opposite: two String literals
\* of equal contents are not equal, a String is equal to itself
C35_StringsEqualByIdentity ==
  [][/\ (EqualStep /\ ObjectOperands) =>
          /\ phase' = "run"
          /\ vm'.sp = vm.sp - 1
          /\ StackTop(vm')
               = IF (NextOp(vm) = OpEqual) = (EqualLeft.id = EqualRight.id)
                 THEN True ELSE False
     /\ (prog.family = "strings" /\ phase = "run" /\ phase' # "run") =>
          /\ phase' = "returned" /\ vm'.err = NoErr
          /\ LastPoppedStackElem(vm') = IF prog.expected.Value THEN True ELSE False
    ]_vars

\* "a" == "a" has yielded False
C35_Witness ==
  /\ ReturnedNil
  /\ prog.family = "strings"
  /\ prog.ast = P1(Infix(StrLit(Sa), "==", StrLit(Sa)))
  /\ vm.constants[1].type = StringObj /\ vm.constants[2].type = StringObj
  /\ vm.constants[1].Value = vm.constants[2].Value
  /\ LastPoppedStackElem(vm) = False


\* an arithmetic instruction is next and both operands are Integers, the
\* right one not 0 for OpDiv
ArithStep ==
  /\ phase = "run" /\ RunCondition(vm)
  /\ NextOp(vm) \in {OpAdd, OpSub, OpMul, OpDiv}
  /\ vm.sp >= 2
  /\ EqualLeft.type = IntegerObj /\ EqualRight.type = IntegerObj
  /\ NextOp(vm) = OpDiv => EqualRight.Value # 0
MinusStep ==
  /\ phase = "run" /\ RunCondition(vm) /\ NextOp(vm) = OpMinus
  /\ vm.sp >= 1 /\ Top(vm).type = IntegerObj

\* C36: on two Integers OpAdd, OpSub, OpMul and OpDiv replace the operands
\* by the Integer l + r, l - r, l * r or the quotient of l by r truncated
\* toward zero, where l is the operand deeper in the stack; OpMinus replaces
\* an Integer by its negation; the programs l op r and the chains of
\* operators yield the values that follow
C36_IntegerArithmetic ==
  [][/\ ArithStep =>
          /\ phase' = "run"
          /\ vm'.sp = vm.sp - 1
          /\ StackTop(vm').type = IntegerObj
          /\ StackTop(vm').Value
               = Arith(EqualLeft.Value,
                       CASE NextOp(vm) = OpAdd -> 1 [] NextOp(vm) = OpSub -> 2
                         [] NextOp(vm) = OpMul -> 3 [] NextOp(vm) = OpDiv -> 4,
                       EqualRight.Value)
     /\ MinusStep =>
          /\ phase' = "run"
          /\ vm'.sp = vm.sp
          /\ StackTop(vm').type = IntegerObj
          /\ StackTop(vm').Value = 0 - Top(vm).Value
     /\ (prog.family = "arith" /\ phase = "run" /\ phase' # "run") =>
          /\ phase' = "returned" /\ vm'.err = NoErr
          /\ Matches(LastPoppedStackElem(vm'), prog.expected)
    ]_vars

\* -1 / 2 has yielded 0
C36_Witness ==
  /\ ReturnedNil
  /\ prog.family = "arith"
  /\ prog.ast = P1(Infix(Prefix("-", IntLit(1)), "/", IntLit(2)))
  /\ LastPoppedStackElem(vm).type = IntegerObj
  /\ LastPoppedStackElem(vm).Value = 0


\* an arithmetic instruction is next and its operands are neither two
\* Integers nor two Strings
UnsupportedStep ==
  /\ phase = "run" /\ RunCondition(vm)
  /\ NextOp(vm) \in {OpAdd, OpSub, OpMul, OpDiv}
  /\ vm.sp >= 2
  /\ ~(EqualLeft.type = IntegerObj /\ EqualRight.type = IntegerObj)
  /\ ~(EqualLeft.type = StringObj /\ EqualRight.type = StringObj)
NegationStep ==
  /\ phase = "run" /\ RunCondition(vm) /\ NextOp(vm) = OpMinus
  /\ vm.sp >= 1 /\ Top(vm).type # IntegerObj
GreaterStep ==
  /\ phase = "run" /\ RunCondition(vm) /\ NextOp(vm) = OpGreaterThan
  /\ vm.sp >= 2
  /\ EqualLeft.type # IntegerObj /\ EqualRight.type # IntegerObj

\* C37: OpAdd, OpSub, OpMul and OpDiv on operands that are neither two
\* Integers nor two Strings make Run return "unsupported types for binary
\* operation" with the left and then the right operand type; OpMinus on a
\* non-Integer returns "unsupported type for negation" with the operand
\* type; OpGreaterThan on two non-Integers returns "unknown operator"; the
\* operands are popped and nothing is pushed
C37_UnsupportedOperandTypes ==
  [][/\ UnsupportedStep =>
          /\ phase' = "returned"
          /\ vm'.err = <<"unsupported types for binary operation: ",
                         EqualLeft.type, " ", EqualRight.type>>
          /\ vm'.sp = vm.sp - 2
          /\ vm'.stack = vm.stack
     /\ NegationStep =>
          /\ phase' = "returned"
          /\ vm'.err = <<"unsupported type for negation: ", Top(vm).type>>
          /\ vm'.sp = vm.sp - 1
          /\ vm'.stack = vm.stack
     /\ GreaterStep =>
          /\ phase' = "returned"
          /\ vm'.err = <<"unknown operator: ", OpGreaterThan, " ",
                         EqualLeft.type, " ", EqualRight.type>>
          /\ vm'.sp = vm.sp - 2
          /\ vm'.stack = vm.stack
     /\ (prog.family = "types" /\ phase = "run" /\ phase' # "run") =>
          /\ phase' = "returned"
          /\ vm'.err = prog.expected.err
    ]_vars

\* "a" + 5 has returned the error that names STRING and then INTEGER
C37_Witness ==
  /\ phase = "returned"
  /\ prog.family = "types"
  /\ Len(prog.p) = 3 /\ prog.p = <<2, 1, 1>>
  /\ prog.ast = P1(Infix(StrLit(Sa), "+", IntLit(5)))
  /\ vm.err = <<"unsupported types for binary operation: ", StringObj, " ", IntegerObj>>
  /\ vm.sp = 0


\* an arithmetic instruction is next and both operands are Strings
StringStep ==
  /\ phase = "run" /\ RunCondition(vm)
  /\ NextOp(vm) \in {OpAdd, OpSub, OpMul, OpDiv}
  /\ vm.sp >= 2
  /\ EqualLeft.type = StringObj /\ EqualRight.type = StringObj

\* C38: on two Strings OpAdd replaces the operands by a String the VM
\* allocates, whose content is the left operand's followed by the right
\* operand's, and changes no constant, no global and no other stack slot;
\* OpSub, OpMul and OpDiv make Run return "unknown string operator" with
\* the opcode; the programs on Strings yield the values that follow
C38_StringConcatenation ==
  [][/\ (StringStep /\ NextOp(vm) = OpAdd) =>
          /\ phase' = "run"
          /\ vm'.sp = vm.sp - 1
          /\ StackTop(vm').type = StringObj
          /\ StackTop(vm').Value = EqualLeft.Value \o EqualRight.Value
          /\ StackTop(vm').id = vm.heap /\ vm'.heap = vm.heap + 1
          /\ StackTop(vm').id \notin {EqualLeft.id, EqualRight.id}
          /\ vm'.constants = vm.constants
          /\ vm'.globals = vm.globals
          /\ \A i \in 0 .. vm.sp - 3 : StackAt(vm', i) = StackAt(vm, i)
          /\ StackAt(vm', vm.sp - 1) = EqualRight
     /\ (StringStep /\ NextOp(vm) # OpAdd) =>
          /\ phase' = "returned"
          /\ vm'.err = <<"unknown string operator: ", NextOp(vm)>>
          /\ vm'.sp = vm.sp - 2
          /\ vm'.stack = vm.stack
     /\ (prog.family = "concat" /\ phase = "run" /\ phase' # "run") =>
          /\ phase' = "returned"
          /\ IF prog.expected.type = "error"
             THEN vm'.err = prog.expected.err
             ELSE /\ vm'.err = NoErr
                  /\ Matches(LastPoppedStackElem(vm'), prog.expected)
    ]_vars

\* "mon" + "key" + "banana" has yielded monkeybanana, and the three
\* constants are as they were
C38_Witness ==
  /\ ReturnedNil
  /\ prog.family = "concat"
  /\ Len(prog.ast.Statements) = 1
  /\ prog.expected = ExpStr(Smon \o Skey \o Sbanana)
  /\ LastPoppedStackElem(vm).type = StringObj
  /\ LastPoppedStackElem(vm).Value = Smon \o Skey \o Sbanana
  /\ vm.constants[1].Value = Smon /\ vm.constants[2].Value = Skey
  /\ vm.constants[3].Value = Sbanana


\* OpDiv is next and both operands are Integers, the right one 0
DivisionByZeroStep ==
  /\ phase = "run" /\ RunCondition(vm) /\ NextOp(vm) = OpDiv
  /\ vm.sp >= 2
  /\ EqualLeft.type = IntegerObj /\ EqualRight.type = IntegerObj
  /\ EqualRight.Value = 0

\* C39: OpDiv on two Integers whose right operand is 0 makes Run return an
\* error: the VM does not panic
C39_DivisionByZeroReturnsError ==
  [][DivisionByZeroStep =>
       /\ phase' = "returned"
       /\ vm'.err # NoErr
       /\ vm'.panic = NoPanic]_vars

\* every program of the vm tests and of the families ends as expected
CorpusOK ==
  Ended =>
    CASE prog.expected.type = "none" -> TRUE
      [] prog.expected.type = "error" -> phase = "returned" /\ vm.err = prog.expected.err
      [] prog.expected.type = "compile error" ->
           phase = "compile failed" /\ comp.err = prog.expected.err
      [] OTHER -> ReturnedNil /\ Matches(LastPoppedStackElem(vm), prog.expected)

====
